---- MODULE Spec2Model ----
(***************************************************************************)
(* PatrickStar chunk placement: the ChunkList directory                   *)
(* (patrickstar/core/chunk_list.py) over two memory tiers, and the Chunk  *)
(* allocator (client/chunk_data.py).                                      *)
(*                                                                         *)
(* Devices are modelled by their type ("cpu", "cuda"): the manager keeps  *)
(* its budgets per device type and every cuda device of one process is    *)
(* cuda:local_rank.  Sizes are in bytes (capacity * element size).        *)
(***************************************************************************)
EXTENDS Integers, Sequences, FiniteSets, TLC

\* ------------------------------------------------------------------ bounds
MaxChunks == 3
MaxNeed == 3
MaxMom == 1
MaxTensors == 3
Capacity == 4
MaxParams == 2
ClockSize == 2
MaxOwners == 2
MaxThreads == 2
MaxHistory == 3
MaxVal == 3

ChunkIds == 1..MaxChunks
Tiers == {"cpu", "cuda"}
NoDevice == "none"
ChunkTypes == {"PARAM_FP16", "PARAM_FP32"}
ItemStates == {"FREE", "HOLD", "COMPUTE"}
\* the answers of the next-access predictor at one call of victim selection
MomChoices == [ChunkIds -> 0..MaxMom]
NoMom == [c \in ChunkIds |-> 0]
TensorIds == 1..MaxTensors

VARIABLES
    config,                     \* [ava, size, types, world_size]: the manager's
                                \* chunk-memory budget per tier, the size and
                                \* the types of the chunks the client creates,
                                \* and the number of processes; fixed
    id_to_chunk_map,            \* chunk id -> [size, device, status, pin]
    chunk_type_to_id_list_map,  \* chunk type -> sequence of ids
    mgr_used,                   \* the manager's used chunk bytes per tier
    comm_infos,                 \* chunk id -> the CommInfo new_chunk returned
    selection,                  \* the victim selection in progress: its
                                \* position and its locals
    threads,                    \* thread -> the access_chunk call it runs:
                                \* its position and its locals
    raced,                      \* whether calls of two threads overlapped,
                                \* and whether both had read the free memory
                                \* before either placed its chunk
    mgr_mom,                    \* the manager: [warmup, cur_mom], whether it
                                \* is in warm-up training and its moment
    access_moments,             \* chunk id -> device -> the moments appended
                                \* to the chunk's access history
    \* one Chunk of client/chunk_data.py and the tensors of its owners
    ps_numel,                   \* tensor id -> param.ps_shape.numel(); fixed
    tensor_id_to_info_dict,     \* TensorInfoList: the dict, as the sequence of its
                                \* entries [tensor_id, start] in insertion order
    tensor_status,              \* tensor id -> param.data_status / grad_status
    chunk_device,               \* Chunk.device, as recorded
    payload_device,             \* the device Chunk.payload lives on
    hps_used,                   \* HybridPSManager: used bytes per device type
    payload,                    \* Chunk.payload: cell -> 0 (zero) or 1 (written)
    timestamp,                  \* Chunk.timestamp, the clock modulo ClockSize
    ps_view,                    \* tensor id -> what param.ps_data_tensor or
                                \* ps_grad_tensor views: [dev, start, numel], or
                                \* NoView before the first allocation
    \* a module of runtime/checkpoint.py and a checkpoint of it
    layout,                     \* name -> kind of the parameter or buffer; fixed
    data,                       \* name -> value of the tensor (of a chunk-based
                                \* parameter: of its fp16 data)
    data_fp32,                  \* name -> value of the fp32 copy of a local
                                \* chunk-based parameter
    saved,                      \* the state dict the caller holds, with the
                                \* values the module had when it was taken
    load_result                 \* the outcome of the last load_state_dict

stepvars == <<selection, threads, raced>>
momvars == <<mgr_mom, access_moments>>
dirvars == <<config, id_to_chunk_map, chunk_type_to_id_list_map, mgr_used,
             comm_infos, stepvars, momvars>>
chunkvars == <<ps_numel, tensor_id_to_info_dict, tensor_status,
               chunk_device, payload_device, hps_used, ps_view,
               payload, timestamp>>
ckvars == <<layout, data, data_fp32, saved, load_result>>
vars == <<config, id_to_chunk_map, chunk_type_to_id_list_map, mgr_used,
          comm_infos, selection, threads, raced,
          mgr_mom, access_moments, ps_numel, tensor_id_to_info_dict, tensor_status,
          chunk_device, payload_device, hps_used, ps_view, payload, timestamp,
          layout, data, data_fp32, saved, load_result>>

\* ----------------------------------------------------------- configuration
\* Budgets and chunk sizes of the checked configurations.
\* The client creates chunks 1, 2, ...; a workload gives the size of each.
\* One large chunk among small ones: the large one fits the cpu budget only.
Workloads ==
    { [c \in ChunkIds |-> IF c = 2 THEN 3 ELSE 1],
      [c \in ChunkIds |-> IF c = 1 THEN 3 ELSE 1] }

SmallConfigs ==
    { [ava |-> [cpu |-> 4, cuda |-> 2], size |-> w, types |-> {"PARAM_FP16"},
     world_size |-> 1] :
          w \in Workloads }

\* spec.md section 8, first scenario: fast = 100 units, slow = 1000 units,
\* block A (chunk 1) of 60 units and block B (chunk 2) of 50 units.
ScenarioConfig ==
    [ava |-> [cpu |-> 1000, cuda |-> 100],
     size |-> [c \in ChunkIds |-> IF c = 1 THEN 60 ELSE 50],
     types |-> {"PARAM_FP16"}, world_size |-> 1]

\* ------------------------------------------------------------ the manager
available_chunk_mem(t) == config.ava[t]

free_chunk_mem(used, t) == available_chunk_mem(t) - used[t]

\* ---------------------------------------------------------------- a chunk
\* RELEASED is the state of a chunk whose payload is not materialised; a
\* materialised chunk has the state aggregated from its items.
get_state(m, c) == IF m[c].device = NoDevice THEN "RELEASED" ELSE m[c].status

get_chunk_space(m, c) == m[c].size

get_payload_space(m, c) == IF m[c].device = NoDevice THEN 0 ELSE m[c].size

is_pin(m, c) == m[c].pin

\* Chunk.allocate_payload: materialise the payload on dev and account for it.
allocate_payload(st, c, dev) ==
    [m |-> [st.m EXCEPT ![c].device = dev],
     used |-> [st.used EXCEPT ![dev] = @ + st.m[c].size]]

\* A move that forgets to record the new device.
Chunk_move_KeepsDevice(st, c, dev) ==
    IF st.m[c].device = dev
    THEN st
    ELSE [m |-> st.m,
          used |-> [st.used EXCEPT ![dev] = @ + st.m[c].size,
                                   ![st.m[c].device] = @ - st.m[c].size]]

\* Chunk.move: no-op on the same device; otherwise the payload goes to dev,
\* the manager adds the bytes to dev and deletes them from the source.
Chunk_move(st, c, dev) ==
    IF st.m[c].device = dev
    THEN st
    ELSE [m |-> [st.m EXCEPT ![c].device = dev],
          used |-> [st.used EXCEPT ![dev] = @ + st.m[c].size,
                                   ![st.m[c].device] = @ - st.m[c].size]]

\* ------------------------------------------------------------- ChunkList
RECURSIVE SumPayload(_, _)
SumPayload(m, S) ==
    IF S = {} THEN 0
    ELSE LET c == CHOOSE x \in S : TRUE
         IN get_payload_space(m, c) + SumPayload(m, S \ {c})

\* A sum over every chunk that has a device, whichever it is.
get_chunk_memory_used_AnyDevice(m, t) ==
    SumPayload(m, {c \in DOMAIN m : m[c].device # NoDevice})

get_chunk_memory_used(m, t) ==
    SumPayload(m, {c \in DOMAIN m : m[c].device # NoDevice /\ m[c].device = t})

\* An overflow target that is the tier itself.
new_device_Stay(t) == t

\* the fixed binary tier model: a tier's overflow target is the other tier
new_device(t) == IF t = "cuda" THEN "cpu" ELSE "cuda"

\* A filter that forgets the pin flag.
Movable_IgnoresPin(m, t) ==
    {c \in DOMAIN m : /\ m[c].device # NoDevice
                      /\ m[c].device = t
                      /\ get_state(m, c) # "COMPUTE"}

\* the chunks put into the priority queue
Movable(m, t) ==
    {c \in DOMAIN m : /\ m[c].device # NoDevice
                      /\ m[c].device = t
                      /\ get_state(m, c) # "COMPUTE"
                      /\ ~is_pin(m, c)}

\* PriorityQueue.get on entries (-next_mom, chunk_id): the smallest tuple
QueueGet(q, nm) ==
    CHOOSE c \in q : \A d \in q :
        \/ -nm[c] < -nm[d]
        \/ (-nm[c] = -nm[d] /\ c <= d)

\* the loop "while not q.empty()": pop, add, stop when enough bytes are moved
RECURSIVE PopLoop(_, _, _, _, _, _)
PopLoop(m, q, nm, moved_bytes, moved_list, still_need_bytes) ==
    IF q = {}
    THEN [moved_bytes |-> moved_bytes, moved_list |-> moved_list]
    ELSE LET chunk_id == QueueGet(q, nm)
             bytes == moved_bytes + get_payload_space(m, chunk_id)
             lst == Append(moved_list, chunk_id)
         IN IF bytes >= still_need_bytes
            THEN [moved_bytes |-> bytes, moved_list |-> lst]
            ELSE PopLoop(m, q \ {chunk_id}, nm, bytes, lst, still_need_bytes)

\* Victim selection that proceeds silently when the queue runs out.
chunk_to_move_out_NoRaise(m, size_in_bytes, t, nm) ==
    LET r == PopLoop(m, Movable(m, t), nm, 0, <<>>, size_in_bytes)
    IN [raised |-> FALSE, moved_list |-> r.moved_list]

\* ChunkList._chunk_to_move_out_for_room_making
chunk_to_move_out_for_room_making(m, size_in_bytes, t, nm) ==
    LET r == PopLoop(m, Movable(m, t), nm, 0, <<>>, size_in_bytes)
    IN IF r.moved_bytes < size_in_bytes
       THEN [raised |-> TRUE, moved_list |-> <<>>]
       ELSE [raised |-> FALSE, moved_list |-> r.moved_list]

\* A move primitive without the defensive re-check of the destination.
chunk_move_NoCheck(st, c, dev) ==
    LET moved == IF st.m[c].device # dev THEN Chunk_move(st, c, dev) ELSE st
    IN [m |-> moved.m, used |-> moved.used, raised |-> FALSE]

\* A move primitive that moves the chunk and then finds the room missing.
chunk_move_CheckAfter(st, c, dev) ==
    LET moved == IF st.m[c].device # dev THEN Chunk_move(st, c, dev) ELSE st
    IN [m |-> moved.m, used |-> moved.used,
        raised |-> free_chunk_mem(st.used, dev) < get_payload_space(st.m, c)]

\* ChunkList.chunk_move
chunk_move(st, c, dev) ==
    IF free_chunk_mem(st.used, dev) < get_payload_space(st.m, c)
    THEN [m |-> st.m, used |-> st.used, raised |-> TRUE]
    ELSE LET moved == IF st.m[c].device # dev THEN Chunk_move(st, c, dev) ELSE st
         IN [m |-> moved.m, used |-> moved.used, raised |-> FALSE]

\* "for idx in moved_list: self.chunk_move(idx, new_device)": the first
\* chunk_move that raises ends the loop with the earlier moves done
RECURSIVE MoveAll(_, _, _)
MoveAll(st, moved_list, dev) ==
    IF moved_list = <<>>
    THEN [m |-> st.m, used |-> st.used, raised |-> FALSE]
    ELSE LET r == chunk_move(st, Head(moved_list), dev)
         IN IF r.raised THEN r
            ELSE MoveAll([m |-> r.m, used |-> r.used], Tail(moved_list), dev)

\* what a call that ran no victim selection reports
NoSelection(st, raised, ava, free) ==
    [m |-> st.m, used |-> st.used, raised |-> raised, selected |-> FALSE,
     deficit |-> 0, victims |-> <<>>, ava |-> ava, free |-> free]

\* the moves of the selected victims, after a selection for `deficit` bytes
Evict(st, sel, deficit, dev, ava, free) ==
    IF sel.raised
    THEN [m |-> st.m, used |-> st.used, raised |-> TRUE, selected |-> TRUE,
          deficit |-> deficit, victims |-> <<>>, ava |-> ava, free |-> free]
    ELSE LET r == MoveAll(st, sel.moved_list, dev)
         IN [m |-> r.m, used |-> r.used, raised |-> r.raised, selected |-> TRUE,
             deficit |-> deficit, victims |-> sel.moved_list,
             ava |-> ava, free |-> free]

\* prepare_device without the check of the tier's available memory.
prepare_device_NoAvaCheck(st, t, need_bytes, nm) ==
    LET ava == available_chunk_mem(t)
        free == free_chunk_mem(st.used, t)
        extra_need_bytes == need_bytes - free
    IN IF extra_need_bytes <= 0 THEN NoSelection(st, FALSE, ava, free)
       ELSE Evict(st, chunk_to_move_out_for_room_making(st.m, extra_need_bytes, t, nm),
                  extra_need_bytes, new_device(t), ava, free)

\* prepare_device that sends the victims to the target device itself.
prepare_device_SameDevice(st, t, need_bytes, nm) ==
    LET ava == available_chunk_mem(t)
        free == free_chunk_mem(st.used, t)
        extra_need_bytes == need_bytes - free
    IN IF ava < need_bytes THEN NoSelection(st, TRUE, ava, free)
       ELSE IF extra_need_bytes <= 0 THEN NoSelection(st, FALSE, ava, free)
       ELSE Evict(st, chunk_to_move_out_for_room_making(st.m, extra_need_bytes, t, nm),
                  extra_need_bytes, t, ava, free)

\* prepare_device that asks for victims also when enough memory is free.
prepare_device_NoEarlyReturn(st, t, need_bytes, nm) ==
    LET ava == available_chunk_mem(t)
        free == free_chunk_mem(st.used, t)
        extra_need_bytes == need_bytes - free
    IN IF ava < need_bytes THEN NoSelection(st, TRUE, ava, free)
       ELSE Evict(st, chunk_to_move_out_for_room_making(st.m, extra_need_bytes, t, nm),
                  extra_need_bytes, new_device(t), ava, free)

\* prepare_device that asks for victims of need_bytes, free memory or not.
prepare_device_FullNeed(st, t, need_bytes, nm) ==
    LET ava == available_chunk_mem(t)
        free == free_chunk_mem(st.used, t)
        extra_need_bytes == need_bytes - free
    IN IF ava < need_bytes THEN NoSelection(st, TRUE, ava, free)
       ELSE IF extra_need_bytes <= 0 THEN NoSelection(st, FALSE, ava, free)
       ELSE Evict(st, chunk_to_move_out_for_room_making(st.m, need_bytes, t, nm),
                  need_bytes, new_device(t), ava, free)

\* ChunkList.prepare_device
prepare_device(st, t, need_bytes, nm) ==
    LET ava == available_chunk_mem(t)
        free == free_chunk_mem(st.used, t)
        extra_need_bytes == need_bytes - free
    IN IF ava < need_bytes THEN NoSelection(st, TRUE, ava, free)
       ELSE IF extra_need_bytes <= 0 THEN NoSelection(st, FALSE, ava, free)
       ELSE Evict(st, chunk_to_move_out_for_room_making(st.m, extra_need_bytes, t, nm),
                  extra_need_bytes, new_device(t), ava, free)

\* ChunkList.make_room
make_room(st, offload_size_in_bytes, t, nm) ==
    Evict(st, chunk_to_move_out_for_room_making(st.m, offload_size_in_bytes, t, nm),
          offload_size_in_bytes, new_device(t),
          available_chunk_mem(t), free_chunk_mem(st.used, t))

\* A branch test that takes every chunk for a released one.
AccessBranch_AlwaysAllocate(m, c, dev) == "allocate"

\* the branch access_chunk takes
AccessBranch(m, c, dev) ==
    IF get_state(m, c) = "RELEASED" THEN "allocate"
    ELSE IF m[c].device # dev THEN "move"
    ELSE "resident"

\* the free chunk memory reported for a call that placed no chunk
NotPlaced == -1

\* An access that places the chunk and prepares the device afterwards.
access_chunk_PlaceFirst(st, c, dev, nm) ==
    LET branch == AccessBranch(st.m, c, dev)
        payload_space == get_chunk_space(st.m, c)
    IN IF branch = "resident"
       THEN [NoSelection(st, FALSE, available_chunk_mem(dev),
                         free_chunk_mem(st.used, dev))
             EXCEPT !.ava = 0, !.free = 0]
            @@ [branch |-> branch, prepared |-> FALSE, placed_with_free |-> NotPlaced]
       ELSE LET done == IF branch = "allocate" THEN allocate_payload(st, c, dev)
                        ELSE Chunk_move(st, c, dev)
                p == prepare_device(done, dev, payload_space, nm)
            IN p @@ [branch |-> branch, prepared |-> TRUE,
                     placed_with_free |-> free_chunk_mem(st.used, dev)]

\* ChunkList.access_chunk; placed_with_free is the free chunk memory of the
\* device at the moment the chunk is materialised or moved there
access_chunk(st, c, dev, nm) ==
    LET branch == AccessBranch(st.m, c, dev)
        payload_space == get_chunk_space(st.m, c)
    IN IF branch = "resident"
       THEN [NoSelection(st, FALSE, available_chunk_mem(dev),
                         free_chunk_mem(st.used, dev))
             EXCEPT !.ava = 0, !.free = 0]
            @@ [branch |-> branch, prepared |-> FALSE, placed_with_free |-> NotPlaced]
       ELSE LET p == prepare_device(st, dev, payload_space, nm)
                ps == [m |-> p.m, used |-> p.used]
                done == IF p.raised THEN ps
                        ELSE IF branch = "allocate" THEN allocate_payload(ps, c, dev)
                        ELSE Chunk_move(ps, c, dev)
            IN [p EXCEPT !.m = done.m, !.used = done.used]
               @@ [branch |-> branch, prepared |-> TRUE,
                   placed_with_free |-> IF p.raised THEN NotPlaced
                                        ELSE free_chunk_mem(ps.used, dev)]

\* --------------------------------------------------------------- actions
\* the Directory and the manager's accounting, as the operations take them
\* Chunk.append_moment: the moment is added to the chunk's history for the
\* device
append_moment(hist, c, dev, mom) ==
    [hist EXCEPT ![c][dev] = Append(@, mom)]

\* An access that records its moment once the chunk has been placed.
access_chunk_RecordsPlaced(st, mgr, hist, c, dev, nm) ==
    LET r == access_chunk(st, c, dev, nm)
    IN r @@ [moments |-> IF mgr.warmup /\ r.branch # "resident" /\ ~r.raised
                         THEN append_moment(hist, c, dev, mgr.cur_mom)
                         ELSE hist]

\* ChunkList.access_chunk from its first statement: in warm-up training the
\* manager's moment is appended to the chunk's history, then the chunk is
\* placed
access_chunk_in_training(st, mgr, hist, c, dev, nm) ==
    LET moments == IF mgr.warmup THEN append_moment(hist, c, dev, mgr.cur_mom)
                   ELSE hist
    IN access_chunk(st, c, dev, nm) @@ [moments |-> moments]

\* the moments recorded in all histories
RECURSIVE CountMoments(_, _)
CountMoments(hist, S) ==
    IF S = {} THEN 0
    ELSE LET c == CHOOSE x \in S : TRUE
         IN Len(hist[c]["cpu"]) + Len(hist[c]["cuda"]) + CountMoments(hist, S \ {c})

\* the histories have room for a record, or none will be made
RoomToRecord == ~mgr_mom.warmup \/ CountMoments(access_moments, ChunkIds) < MaxHistory

Now == [m |-> id_to_chunk_map, used |-> mgr_used]

\* the predictor's answers that a selection on tier t can tell apart
MomsFor(t) ==
    {nm \in MomChoices : \A c \in ChunkIds :
        c \notin Movable(id_to_chunk_map, t) => nm[c] = 0}

\* what a new_chunk call that raises returns
NoCommInfo == [chunk_type |-> "UNDEF", group_id |-> -1, offset |-> -1]

\* A token computed from the number of chunks of all types.
CommInfo_CountsAll(lists, chunk_type, world_size) ==
    LET RECURSIVE Total(_)
        Total(S) == IF S = {} THEN 0
                    ELSE LET t == CHOOSE x \in S : TRUE
                         IN Len(lists[t]) + Total(S \ {t})
        n == Total(DOMAIN lists)
    IN [chunk_type |-> chunk_type,
        group_id |-> (n - 1) \div world_size,
        offset |-> (n - 1) % world_size]

\* the CommInfo of the chunk just appended to the list of chunk_type
CommInfo(lists, chunk_type, world_size) ==
    LET num_type_chunk == Len(lists[chunk_type])
    IN [chunk_type |-> chunk_type,
        group_id |-> (num_type_chunk - 1) \div world_size,
        offset |-> (num_type_chunk - 1) % world_size]

\* ChunkList.last_chunk_id of a type with chunks (it raises on an empty list)
last_chunk_id(lists, chunk_type) == lists[chunk_type][Len(lists[chunk_type])]

\* A new_chunk that replaces the chunk registered under the id.
new_chunk_Overwrite(m, lists, c, size, type, world_size) ==
    LET appended == [lists EXCEPT ![type] = Append(@, c)]
    IN [m |-> [x \in DOMAIN m \cup {c} |->
                  IF x = c
                  THEN [size |-> size, device |-> NoDevice,
                        status |-> "FREE", pin |-> FALSE]
                  ELSE m[x]],
        lists |-> appended,
        raised |-> FALSE,
        comm_info |-> CommInfo(appended, type, world_size)]

\* A new_chunk that appends the id to the list before it looks the id up.
new_chunk_AppendFirst(m, lists, c, size, type, world_size) ==
    LET appended == [lists EXCEPT ![type] = Append(@, c)]
    IN IF c \in DOMAIN m
       THEN [m |-> m, lists |-> appended, raised |-> TRUE, comm_info |-> NoCommInfo]
       ELSE [m |-> [x \in DOMAIN m \cup {c} |->
                       IF x = c
                       THEN [size |-> size, device |-> NoDevice,
                             status |-> "FREE", pin |-> FALSE]
                       ELSE m[x]],
             lists |-> appended,
             raised |-> FALSE,
             comm_info |-> CommInfo(appended, type, world_size)]

\* ChunkList.new_chunk: the client numbers its chunks 1, 2, ...; a call with
\* a registered id raises and changes nothing
new_chunk(m, lists, c, size, type, world_size) ==
    IF c \in DOMAIN m
    THEN [m |-> m, lists |-> lists, raised |-> TRUE, comm_info |-> NoCommInfo]
    ELSE LET appended == [lists EXCEPT ![type] = Append(@, c)]
         IN [m |-> [x \in DOMAIN m \cup {c} |->
                       IF x = c
                       THEN [size |-> size, device |-> NoDevice,
                             status |-> "FREE", pin |-> FALSE]
                       ELSE m[x]],
             lists |-> appended,
             raised |-> FALSE,
             comm_info |-> CommInfo(appended, type, world_size)]

NewChunk(c, size, type) ==
    /\ c <= Cardinality(DOMAIN id_to_chunk_map) + 1
    /\ LET r == new_chunk(id_to_chunk_map, chunk_type_to_id_list_map, c, size, type,
                          config.world_size)
       IN /\ id_to_chunk_map' = r.m
          /\ chunk_type_to_id_list_map' = r.lists
          /\ comm_infos' = IF r.raised THEN comm_infos
                           ELSE [x \in DOMAIN comm_infos \cup {c} |->
                                    IF x = c THEN r.comm_info ELSE comm_infos[x]]
    /\ UNCHANGED <<config, mgr_used>>
    /\ UNCHANGED stepvars
    /\ UNCHANGED momvars
    /\ UNCHANGED chunkvars
    /\ UNCHANGED ckvars

AccessChunk(c, dev, nm) ==
    /\ c \in DOMAIN id_to_chunk_map
    /\ RoomToRecord
    /\ LET r == access_chunk_in_training(Now, mgr_mom, access_moments, c, dev, nm)
       IN /\ id_to_chunk_map' = r.m
          /\ mgr_used' = r.used
          /\ access_moments' = r.moments
    /\ UNCHANGED <<config, chunk_type_to_id_list_map, comm_infos, mgr_mom>>
    /\ UNCHANGED stepvars
    /\ UNCHANGED chunkvars
    /\ UNCHANGED ckvars

PrepareDevice(dev, need_bytes, nm) ==
    /\ LET r == prepare_device(Now, dev, need_bytes, nm)
       IN /\ id_to_chunk_map' = r.m
          /\ mgr_used' = r.used
    /\ UNCHANGED <<config, chunk_type_to_id_list_map, comm_infos>>
    /\ UNCHANGED stepvars
    /\ UNCHANGED momvars
    /\ UNCHANGED chunkvars
    /\ UNCHANGED ckvars

MakeRoom(dev, offload_size_in_bytes, nm) ==
    /\ LET r == make_room(Now, offload_size_in_bytes, dev, nm)
       IN /\ id_to_chunk_map' = r.m
          /\ mgr_used' = r.used
    /\ UNCHANGED <<config, chunk_type_to_id_list_map, comm_infos>>
    /\ UNCHANGED stepvars
    /\ UNCHANGED momvars
    /\ UNCHANGED chunkvars
    /\ UNCHANGED ckvars

\* the chunks an owner moves by hand: the materialised ones
Materialised(m) == {c \in DOMAIN m : m[c].device # NoDevice}

\* ChunkList.chunk_move called by an owner
ChunkMove(c, dev) ==
    /\ c \in Materialised(id_to_chunk_map)
    /\ LET r == chunk_move(Now, c, dev)
       IN /\ id_to_chunk_map' = r.m
          /\ mgr_used' = r.used
    /\ UNCHANGED <<config, chunk_type_to_id_list_map, comm_infos>>
    /\ UNCHANGED stepvars
    /\ UNCHANGED momvars
    /\ UNCHANGED chunkvars
    /\ UNCHANGED ckvars

\* the item life cycle as it shows in the state of a chunk
StateSteps ==
    {<<"FREE", "HOLD">>, <<"HOLD", "FREE">>,
     <<"HOLD", "COMPUTE">>, <<"COMPUTE", "HOLD">>}

\* ChunkList.update_state on a materialised chunk; a stale old_state raises
\* and changes nothing
UpdateState(c, old_state, new_state) ==
    /\ c \in Materialised(id_to_chunk_map)
    /\ <<old_state, new_state>> \in StateSteps
    /\ id_to_chunk_map' =
           IF id_to_chunk_map[c].status = old_state
           THEN [id_to_chunk_map EXCEPT ![c].status = new_state]
           ELSE id_to_chunk_map
    /\ UNCHANGED <<config, chunk_type_to_id_list_map, mgr_used, comm_infos>>
    /\ UNCHANGED stepvars
    /\ UNCHANGED momvars
    /\ UNCHANGED chunkvars
    /\ UNCHANGED ckvars

\* the pin registry: an owner pins or unpins a materialised chunk
Pin(c) ==
    /\ c \in Materialised(id_to_chunk_map)
    /\ id_to_chunk_map' = [id_to_chunk_map EXCEPT ![c].pin = ~@]
    /\ UNCHANGED <<config, chunk_type_to_id_list_map, mgr_used, comm_infos>>
    /\ UNCHANGED stepvars
    /\ UNCHANGED momvars
    /\ UNCHANGED chunkvars
    /\ UNCHANGED ckvars

\* the manager's moment moves on
Tick ==
    /\ mgr_mom.cur_mom < MaxMom
    /\ mgr_mom' = [mgr_mom EXCEPT !.cur_mom = @ + 1]
    /\ UNCHANGED <<config, id_to_chunk_map, chunk_type_to_id_list_map, mgr_used,
                   comm_infos, access_moments>>
    /\ UNCHANGED stepvars
    /\ UNCHANGED chunkvars
    /\ UNCHANGED ckvars

\* warm-up training ends
EndWarmup ==
    /\ mgr_mom.warmup
    /\ mgr_mom' = [mgr_mom EXCEPT !.warmup = FALSE]
    /\ UNCHANGED <<config, id_to_chunk_map, chunk_type_to_id_list_map, mgr_used,
                   comm_infos, access_moments>>
    /\ UNCHANGED stepvars
    /\ UNCHANGED chunkvars
    /\ UNCHANGED ckvars

\* ------------------------------- victim selection, one step at a time
\* no selection is running
NoSelect ==
    [pc |-> "idle", q |-> {}, nm |-> NoMom, target_device |-> "cpu",
     still_need_bytes |-> 0, moved_bytes |-> 0, moved_list |-> <<>>,
     eligible |-> 0]

\* _chunk_to_move_out_for_room_making up to the loop: the queue is filled
\* with the chunks that pass the filter
SelectBegin(size_in_bytes, t, nm) ==
    /\ selection.pc = "idle"
    /\ selection' = [pc |-> "loop", q |-> Movable(id_to_chunk_map, t), nm |-> nm,
               target_device |-> t,
               still_need_bytes |-> size_in_bytes, moved_bytes |-> 0,
               moved_list |-> <<>>,
               eligible |-> Cardinality(Movable(id_to_chunk_map, t))]
    /\ UNCHANGED <<config, id_to_chunk_map, chunk_type_to_id_list_map, mgr_used,
                   comm_infos, threads, raced>>
    /\ UNCHANGED momvars
    /\ UNCHANGED chunkvars
    /\ UNCHANGED ckvars

\* An iteration that reads the head of the queue and leaves it there.
SelectPop_Peek ==
    /\ selection.pc = "loop"
    /\ selection.q # {}
    /\ LET chunk_id == QueueGet(selection.q, selection.nm)
           bytes == selection.moved_bytes + get_payload_space(id_to_chunk_map, chunk_id)
       IN selection' = [selection EXCEPT !.moved_bytes = bytes,
                             !.moved_list = Append(@, chunk_id),
                             !.pc = IF bytes >= selection.still_need_bytes
                                    THEN "after" ELSE "loop"]
    /\ UNCHANGED <<config, id_to_chunk_map, chunk_type_to_id_list_map, mgr_used,
                   comm_infos, threads, raced>>
    /\ UNCHANGED momvars
    /\ UNCHANGED chunkvars
    /\ UNCHANGED ckvars

\* one iteration of "while not q.empty()": q.get() takes a chunk off the
\* queue, its bytes are added, its id is appended, and the loop breaks when
\* enough bytes are moved
SelectPop ==
    /\ selection.pc = "loop"
    /\ selection.q # {}
    /\ LET chunk_id == QueueGet(selection.q, selection.nm)
           bytes == selection.moved_bytes + get_payload_space(id_to_chunk_map, chunk_id)
       IN selection' = [selection EXCEPT !.q = @ \ {chunk_id},
                             !.moved_bytes = bytes,
                             !.moved_list = Append(@, chunk_id),
                             !.pc = IF bytes >= selection.still_need_bytes
                                    THEN "after" ELSE "loop"]
    /\ UNCHANGED <<config, id_to_chunk_map, chunk_type_to_id_list_map, mgr_used,
                   comm_infos, threads, raced>>
    /\ UNCHANGED momvars
    /\ UNCHANGED chunkvars
    /\ UNCHANGED ckvars

\* the loop test fails on an empty queue
SelectExit ==
    /\ selection.pc = "loop"
    /\ selection.q = {}
    /\ selection' = [selection EXCEPT !.pc = "after"]
    /\ UNCHANGED <<config, id_to_chunk_map, chunk_type_to_id_list_map, mgr_used,
                   comm_infos, threads, raced>>
    /\ UNCHANGED momvars
    /\ UNCHANGED chunkvars
    /\ UNCHANGED ckvars

\* what the selection hands to its caller: the raise when too few bytes were
\* found, the list otherwise
SelectResult ==
    IF selection.moved_bytes < selection.still_need_bytes
    THEN [raised |-> TRUE, moved_list |-> <<>>]
    ELSE [raised |-> FALSE, moved_list |-> selection.moved_list]

\* the selection raises or returns
SelectReturn ==
    /\ selection.pc = "after"
    /\ selection' = NoSelect
    /\ UNCHANGED <<config, id_to_chunk_map, chunk_type_to_id_list_map, mgr_used,
                   comm_infos, threads, raced>>
    /\ UNCHANGED momvars
    /\ UNCHANGED chunkvars
    /\ UNCHANGED ckvars

\* ------------------------- access_chunk by two threads, one step at a time
Threads == 1..MaxThreads

\* a thread outside access_chunk
NoCall == [pc |-> "idle", c |-> 0, dev |-> "cpu", branch |-> "resident",
           extra_need_bytes |-> 0]

NotRaced == [overlapped |-> FALSE, both_read |-> FALSE]

\* a thread enters access_chunk and tests the state and the device of the
\* chunk; a chunk already on the device ends the call
ThreadCall(th, c, dev) ==
    /\ threads[th].pc = "idle"
    /\ c \in DOMAIN id_to_chunk_map
    /\ RoomToRecord
    /\ access_moments' = IF mgr_mom.warmup
                         THEN append_moment(access_moments, c, dev, mgr_mom.cur_mom)
                         ELSE access_moments
    /\ UNCHANGED mgr_mom
    /\ LET branch == AccessBranch(id_to_chunk_map, c, dev)
       IN /\ threads' =
                IF branch = "resident" THEN threads
                ELSE [threads EXCEPT ![th] =
                         [pc |-> "prepare", c |-> c, dev |-> dev,
                          branch |-> branch, extra_need_bytes |-> 0]]
          /\ raced' =
                [raced EXCEPT !.overlapped =
                     @ \/ (/\ branch # "resident"
                           /\ \E o \in Threads \ {th} : threads[o].pc # "idle")]
    /\ UNCHANGED <<config, id_to_chunk_map, chunk_type_to_id_list_map, mgr_used,
                   comm_infos, selection>>
    /\ UNCHANGED chunkvars
    /\ UNCHANGED ckvars

\* A read that finds any need met by the free memory.
ThreadRead_NoCheck(th) ==
    /\ threads[th].pc = "prepare"
    /\ threads' = [threads EXCEPT ![th].pc = "place"]
    /\ raced' = [raced EXCEPT !.both_read =
                     @ \/ \E o \in Threads \ {th} : threads[o].pc = "place"]
    /\ UNCHANGED <<config, id_to_chunk_map, chunk_type_to_id_list_map, mgr_used,
                   comm_infos, selection>>
    /\ UNCHANGED momvars
    /\ UNCHANGED chunkvars
    /\ UNCHANGED ckvars

\* prepare_device up to extra_need_bytes: the thread reads the available and
\* the free chunk memory of the device, raises when the device is too
\* small, and keeps the deficit
ThreadRead(th) ==
    /\ threads[th].pc = "prepare"
    /\ LET need_bytes == get_chunk_space(id_to_chunk_map, threads[th].c)
           ava == available_chunk_mem(threads[th].dev)
           free == free_chunk_mem(mgr_used, threads[th].dev)
       IN /\ threads' =
                IF ava < need_bytes THEN [threads EXCEPT ![th] = NoCall]
                ELSE [threads EXCEPT ![th].pc = "place",
                                     ![th].extra_need_bytes = need_bytes - free]
          /\ raced' =
                [raced EXCEPT !.both_read =
                     @ \/ (/\ ava >= need_bytes
                           /\ \E o \in Threads \ {th} : threads[o].pc = "place")]
    /\ UNCHANGED <<config, id_to_chunk_map, chunk_type_to_id_list_map, mgr_used,
                   comm_infos, selection>>
    /\ UNCHANGED momvars
    /\ UNCHANGED chunkvars
    /\ UNCHANGED ckvars

\* the rest of the call: with a deficit the victims are selected and moved
\* out, and unless that raised the chunk is materialised on the device or
\* moved to it
ThreadPlace(th, nm) ==
    /\ threads[th].pc = "place"
    /\ LET me == threads[th]
           p == IF me.extra_need_bytes <= 0
                THEN NoSelection(Now, FALSE, 0, 0)
                ELSE Evict(Now,
                           chunk_to_move_out_for_room_making(
                               id_to_chunk_map, me.extra_need_bytes, me.dev, nm),
                           me.extra_need_bytes, new_device(me.dev), 0, 0)
           ps == [m |-> p.m, used |-> p.used]
           done == IF p.raised THEN ps
                   ELSE IF me.branch = "allocate" THEN allocate_payload(ps, me.c, me.dev)
                   ELSE Chunk_move(ps, me.c, me.dev)
       IN /\ id_to_chunk_map' = done.m
          /\ mgr_used' = done.used
    /\ threads' = [threads EXCEPT ![th] = NoCall]
    /\ UNCHANGED <<config, chunk_type_to_id_list_map, comm_infos, selection, raced>>
    /\ UNCHANGED momvars
    /\ UNCHANGED chunkvars
    /\ UNCHANGED ckvars

\* ------------------------------------------------- Chunk: the allocator
\* TensorInfoList.generate_in_sorted_order: list.sort(key=start), a stable
\* sort of the dict's values
RECURSIVE InsertByStart(_, _)
InsertByStart(sorted, info) ==
    IF sorted = <<>> THEN <<info>>
    ELSE IF Head(sorted).start <= info.start
         THEN <<Head(sorted)>> \o InsertByStart(Tail(sorted), info)
         ELSE <<info>> \o sorted

RECURSIVE generate_in_sorted_order(_)
generate_in_sorted_order(dict) ==
    IF dict = <<>> THEN <<>>
    ELSE InsertByStart(generate_in_sorted_order(SubSeq(dict, 1, Len(dict) - 1)),
                       dict[Len(dict)])

\* TensorInfo.numel and TensorInfo.status read the owning parameter
InfoNumel(numel, info) == numel[info.tensor_id]

\* TensorInfoList.add: dict[tensor_id] = item; a known key keeps its place
TensorInfoList_add(dict, item) ==
    IF \E i \in 1..Len(dict) : dict[i].tensor_id = item.tensor_id
    THEN [i \in 1..Len(dict) |->
             IF dict[i].tensor_id = item.tensor_id THEN item ELSE dict[i]]
    ELSE Append(dict, item)

\* A scan that takes the start of an item for its end.
RECURSIVE Scan_ForgetsLength(_, _, _, _, _)
Scan_ForgetsLength(infos, status, numel_of, prev_end, numel) ==
    IF infos = <<>> THEN [in_loop |-> FALSE, prev_end |-> prev_end]
    ELSE LET info == Head(infos)
         IN IF status[info.tensor_id] = "FREE"
            THEN Scan_ForgetsLength(Tail(infos), status, numel_of, prev_end, numel)
            ELSE IF info.start - prev_end >= numel
                 THEN [in_loop |-> TRUE, prev_end |-> prev_end]
            ELSE Scan_ForgetsLength(Tail(infos), status, numel_of, info.start, numel)

\* A scan that sees no gap before an item and always runs to the tail.
RECURSIVE Scan_TailOnly(_, _, _, _, _)
Scan_TailOnly(infos, status, numel_of, prev_end, numel) ==
    IF infos = <<>> THEN [in_loop |-> FALSE, prev_end |-> prev_end]
    ELSE LET info == Head(infos)
         IN IF status[info.tensor_id] = "FREE"
            THEN Scan_TailOnly(Tail(infos), status, numel_of, prev_end, numel)
            ELSE Scan_TailOnly(Tail(infos), status, numel_of,
                               info.start + InfoNumel(numel_of, info), numel)

\* the loop of try_allocate over the sorted items: it returns from inside
\* the loop at the first gap of numel elements before an item that is not
\* FREE, and otherwise ends with prev_end the end of the last such item
RECURSIVE Scan(_, _, _, _, _)
Scan(infos, status, numel_of, prev_end, numel) ==
    IF infos = <<>> THEN [in_loop |-> FALSE, prev_end |-> prev_end]
    ELSE LET info == Head(infos)
         IN IF status[info.tensor_id] = "FREE"
            THEN Scan(Tail(infos), status, numel_of, prev_end, numel)
            ELSE IF info.start - prev_end >= numel
                 THEN [in_loop |-> TRUE, prev_end |-> prev_end]
            ELSE Scan(Tail(infos), status, numel_of,
                      info.start + InfoNumel(numel_of, info), numel)

\* Chunk.allocate: the item is installed at offset
Chunk_allocate(dict, offset, t) ==
    TensorInfoList_add(dict, [tensor_id |-> t, start |-> offset])

\* the cells of the payload
Cells == 0..(Capacity - 1)

\* "dest = self.payload.narrow(0, offset, numel); dest.zero_()"
zero_(cells, offset, numel) ==
    [x \in Cells |-> IF offset <= x /\ x < offset + numel THEN 0 ELSE cells[x]]

\* Chunk.touch: the timestamp is read from the clock, which has moved on
touch(ts) == (ts + 1) % ClockSize

\* A try_allocate that clears the tail of the payload and touches the chunk
\* before it gives up.
try_allocate_FailsDirty(dict, status, numel_of, t, cells, ts) ==
    LET numel == numel_of[t]
        r == Scan(generate_in_sorted_order(dict), status, numel_of, 0, numel)
    IN IF r.in_loop \/ Capacity - r.prev_end >= numel
       THEN [dict |-> Chunk_allocate(dict, r.prev_end, t),
             found |-> TRUE, start |-> r.prev_end,
             payload |-> zero_(cells, r.prev_end, numel), timestamp |-> touch(ts)]
       ELSE [dict |-> dict, found |-> FALSE, start |-> 0,
             payload |-> zero_(cells, r.prev_end, numel), timestamp |-> touch(ts)]

\* Chunk.try_allocate for tensor t: the dict, the payload and the timestamp
\* after the call, and whether a fragment was found (None otherwise) and
\* where
try_allocate(dict, status, numel_of, t, cells, ts) ==
    LET numel == numel_of[t]
        r == Scan(generate_in_sorted_order(dict), status, numel_of, 0, numel)
    IN IF r.in_loop \/ Capacity - r.prev_end >= numel
       THEN [dict |-> Chunk_allocate(dict, r.prev_end, t),
             found |-> TRUE, start |-> r.prev_end,
             payload |-> zero_(cells, r.prev_end, numel), timestamp |-> touch(ts)]
       ELSE [dict |-> dict, found |-> FALSE, start |-> 0,
             payload |-> cells, timestamp |-> ts]

\* An aggregation that tests for a held item before a computing one.
get_status_HoldFirst(infos, status) ==
    IF \E i \in 1..Len(infos) : status[infos[i].tensor_id] # "FREE"
    THEN "HOLD" ELSE "FREE"

\* the loop of get_status over the sorted items, with its free_flag
RECURSIVE StatusLoop(_, _, _)
StatusLoop(infos, status, free_flag) ==
    IF infos = <<>> THEN (IF free_flag THEN "FREE" ELSE "HOLD")
    ELSE LET st == status[Head(infos).tensor_id]
         IN IF st = "COMPUTE" THEN "COMPUTE"
            ELSE StatusLoop(Tail(infos), status, free_flag /\ st = "FREE")

\* Chunk.get_status
get_status(dict, status) ==
    IF Len(dict) = 0 THEN "FREE"
    ELSE StatusLoop(generate_in_sorted_order(dict), status, TRUE)

\* the bytes of an element of the chunk's data type (fp16)
getsizeof == 2

\* the bytes the chunk accounts for with the manager
ChunkBytes == Capacity * getsizeof

NoView == [dev |-> NoDevice, start |-> 0, numel |-> 0]

\* "self.payload.narrow(0, start, size).view(param.ps_shape)"
Narrow(dev, start, size) == [dev |-> dev, start |-> start, numel |-> size]

\* A loop that views every item at the start of the new payload.
RECURSIVE Repoint_AtZero(_, _, _, _, _, _, _)
Repoint_AtZero(infos, status, numel_of, view, param_data_dict, param_grad_dict, dev) ==
    IF infos = <<>> THEN [view |-> view, raised |-> FALSE]
    ELSE LET info == Head(infos)
             tensor_id == info.tensor_id
         IN IF status[tensor_id] = "FREE"
            THEN Repoint_AtZero(Tail(infos), status, numel_of, view,
                                param_data_dict, param_grad_dict, dev)
            ELSE IF tensor_id \in param_data_dict \cup param_grad_dict
            THEN Repoint_AtZero(Tail(infos), status, numel_of,
                         [view EXCEPT ![tensor_id] =
                              Narrow(dev, 0, InfoNumel(numel_of, info))],
                         param_data_dict, param_grad_dict, dev)
            ELSE [view |-> view, raised |-> TRUE]

\* the loop of Chunk.move over the sorted items: an item that is FREE is
\* skipped; the owner of any other item, looked up by id in the data and
\* then in the grad mapping, gets a view of the new payload at the item's
\* start; an id in neither mapping raises with the earlier owners re-pointed
RECURSIVE Repoint(_, _, _, _, _, _, _)
Repoint(infos, status, numel_of, view, param_data_dict, param_grad_dict, dev) ==
    IF infos = <<>> THEN [view |-> view, raised |-> FALSE]
    ELSE LET info == Head(infos)
             tensor_id == info.tensor_id
         IN IF status[tensor_id] = "FREE"
            THEN Repoint(Tail(infos), status, numel_of, view,
                         param_data_dict, param_grad_dict, dev)
            ELSE IF tensor_id \in param_data_dict \cup param_grad_dict
            THEN Repoint(Tail(infos), status, numel_of,
                         [view EXCEPT ![tensor_id] =
                              Narrow(dev, info.start, InfoNumel(numel_of, info))],
                         param_data_dict, param_grad_dict, dev)
            ELSE [view |-> view, raised |-> TRUE]

\* the chunk and its owners' views, as Chunk.move takes them
Self ==
    [device |-> chunk_device, payload |-> payload_device, used |-> hps_used,
     view |-> ps_view, dict |-> tensor_id_to_info_dict,
     cells |-> payload, timestamp |-> timestamp]

\* A move that goes through all its steps also to the device of the chunk.
move_NoShortcut(self, status, numel_of, param_data_dict, param_grad_dict, target_device) ==
    LET used == [self.used EXCEPT ![target_device] = @ + ChunkBytes,
                                  ![self.device] = @ - ChunkBytes]
        r == Repoint(generate_in_sorted_order(self.dict), status, numel_of,
                     self.view, param_data_dict, param_grad_dict,
                     target_device)
    IN [device |-> IF r.raised THEN self.device ELSE target_device,
        payload |-> target_device, used |-> used, view |-> r.view,
        dict |-> self.dict, cells |-> self.cells,
        timestamp |-> IF r.raised THEN self.timestamp
                      ELSE touch(self.timestamp),
        raised |-> r.raised]

\* A move that leaves the chunk without its items.
move_ForgetsItems(self, status, numel_of, param_data_dict, param_grad_dict, target_device) ==
    IF self.device = target_device
    THEN self @@ [raised |-> FALSE]
    ELSE [device |-> target_device, payload |-> target_device,
          used |-> [self.used EXCEPT ![target_device] = @ + ChunkBytes,
                                     ![self.device] = @ - ChunkBytes],
          view |-> self.view, dict |-> <<>>, cells |-> self.cells,
          timestamp |-> touch(self.timestamp), raised |-> FALSE]

\* Chunk.move(param_data_dict, param_grad_dict, target_device); the mappings
\* are given by their key sets
move(self, status, numel_of, param_data_dict, param_grad_dict, target_device) ==
    IF self.device = target_device
    THEN self @@ [raised |-> FALSE]
    ELSE LET used == [self.used EXCEPT ![target_device] = @ + ChunkBytes,
                                       ![self.device] = @ - ChunkBytes]
             r == Repoint(generate_in_sorted_order(self.dict), status, numel_of,
                          self.view, param_data_dict, param_grad_dict,
                          target_device)
         IN [device |-> IF r.raised THEN self.device ELSE target_device,
             payload |-> target_device, used |-> used, view |-> r.view,
             dict |-> self.dict, cells |-> self.cells,
             timestamp |-> IF r.raised THEN self.timestamp
                           ELSE touch(self.timestamp),
             raised |-> r.raised]

\* An owner moves the chunk. A RuntimeError of an earlier move is fatal: the
\* chunk it left with its payload off the recorded device is moved no more.
Move(param_data_dict, param_grad_dict, target_device) ==
    /\ chunk_device = payload_device
    /\ LET r == move(Self, tensor_status, ps_numel,
                     param_data_dict, param_grad_dict, target_device)
       IN /\ chunk_device' = r.device
          /\ payload_device' = r.payload
          /\ hps_used' = r.used
          /\ ps_view' = r.view
          /\ payload' = r.cells
          /\ timestamp' = r.timestamp
          /\ tensor_id_to_info_dict' = r.dict
    /\ UNCHANGED <<ps_numel, tensor_status>>
    /\ UNCHANGED dirvars
    /\ UNCHANGED ckvars

\* An owner allocates tensor t in the chunk and, when a fragment was found,
\* takes the returned view of the payload and the tensor in use (HOLD or
\* COMPUTE).
TryAllocate(t, st) ==
    /\ st \in {"HOLD", "COMPUTE"}
    /\ LET r == try_allocate(tensor_id_to_info_dict, tensor_status, ps_numel, t,
                             payload, timestamp)
       IN /\ tensor_id_to_info_dict' = r.dict
          /\ payload' = r.payload
          /\ timestamp' = r.timestamp
          /\ tensor_status' = IF r.found THEN [tensor_status EXCEPT ![t] = st]
                              ELSE tensor_status
          /\ ps_view' = IF r.found
                        THEN [ps_view EXCEPT ![t] =
                                 Narrow(payload_device, r.start, ps_numel[t])]
                        ELSE ps_view
    /\ UNCHANGED <<ps_numel, chunk_device, payload_device, hps_used>>
    /\ UNCHANGED dirvars
    /\ UNCHANGED ckvars

\* An owner writes the data of a tensor in use through its view of the
\* payload.
WriteTensor(t) ==
    /\ tensor_status[t] # "FREE"
    /\ ps_view[t].dev = payload_device
    /\ payload' = [x \in Cells |->
                      IF ps_view[t].start <= x /\ x < ps_view[t].start + ps_view[t].numel
                      THEN 1 ELSE payload[x]]
    /\ UNCHANGED <<ps_numel, tensor_id_to_info_dict, tensor_status,
                   chunk_device, payload_device, hps_used, ps_view, timestamp>>
    /\ UNCHANGED dirvars
    /\ UNCHANGED ckvars

\* An owner releases an item: "to delete a tensor, set its status to FREE".
Release(t) ==
    /\ \E i \in 1..Len(tensor_id_to_info_dict) : tensor_id_to_info_dict[i].tensor_id = t
    /\ tensor_status[t] # "FREE"
    /\ tensor_status' = [tensor_status EXCEPT ![t] = "FREE"]
    /\ UNCHANGED <<ps_numel, tensor_id_to_info_dict,
                   chunk_device, payload_device, hps_used, ps_view,
                   payload, timestamp>>
    /\ UNCHANGED dirvars
    /\ UNCHANGED ckvars

\* A computation begins or ends on an item in use.
SetStatus(t) ==
    /\ tensor_status[t] # "FREE"
    /\ tensor_status' =
           [tensor_status EXCEPT ![t] = IF @ = "HOLD" THEN "COMPUTE" ELSE "HOLD"]
    /\ UNCHANGED <<ps_numel, tensor_id_to_info_dict,
                   chunk_device, payload_device, hps_used, ps_view,
                   payload, timestamp>>
    /\ UNCHANGED dirvars
    /\ UNCHANGED ckvars

\* ------------------------------------------- checkpoint: state_dict, load
\* the parameters and buffers of the module, by name
Names == 1..MaxParams

\* the values a tensor holds
Vals == 0..MaxVal

Kinds == {"chunk_local", "chunk_remote", "torch_local", "torch_remote",
          "unregistered", "buffer", "np_buffer"}

is_param_registered(kind) ==
    kind \in {"chunk_local", "chunk_remote", "torch_local", "torch_remote"}

is_local(kind) == kind \in {"chunk_local", "torch_local"}

IsChunkBased(kind) == kind \in {"chunk_local", "chunk_remote"}

\* a copy into an fp16 tensor keeps what fp16 can hold of the value
Half(v) == (v \div 2) * 2

\* the tensor a state dict entry of the module holds for name n: the fp32
\* data of a local chunk-based parameter, the parameter or buffer otherwise
EntryTensor(kinds, d, d32, n) ==
    IF kinds[n] = "chunk_local" THEN d32[n] ELSE d[n]

\* A state dict that takes the fp16 data of the chunk-based parameters.
state_dict_SavesFp16(kinds, d, d32) ==
    LET keys == {n \in Names : \/ kinds[n] \in {"unregistered", "buffer"}
                               \/ is_param_registered(kinds[n]) /\ is_local(kinds[n])}
    IN [keys |-> keys, vals |-> [n \in Names |-> d[n]]]

\* state_dict(module, client): the keys it fills and the values under them;
\* registered parameters that are not local, and buffers that are not
\* persistent, are left out
state_dict(kinds, d, d32) ==
    LET keys == {n \in Names : \/ kinds[n] \in {"unregistered", "buffer"}
                               \/ is_param_registered(kinds[n]) /\ is_local(kinds[n])}
    IN [keys |-> keys, vals |-> [n \in Names |-> EntryTensor(kinds, d, d32, n)]]

\* what the dict the caller holds reads under key n: "detach()" shares the
\* storage of the live tensor, so a dict kept in memory reads the tensor as
\* it is now; a dict that went through torch.save and torch.load reads the
\* value written to the file
Entry(sd, kinds, d, d32, n) ==
    IF sd.kind = "memory" THEN EntryTensor(kinds, d, d32, n) ELSE sd.vals[n]

\* _load_from_state_dict over local_state (parameters and persistent
\* buffers): the tensors after the copies, and the missing and unexpected
\* keys
load_from_state_dict(sd, kinds, d, d32) ==
    LET local_state == {n \in Names : kinds[n] # "np_buffer"}
        copied == {n \in local_state \cap sd.keys :
                      ~(IsChunkBased(kinds[n]) /\ ~is_local(kinds[n]))}
    IN [data |-> [n \in Names |->
                     IF n \notin copied THEN d[n]
                     ELSE IF IsChunkBased(kinds[n])
                          THEN Half(Entry(sd, kinds, d, d32, n))
                          ELSE Entry(sd, kinds, d, d32, n)],
        data_fp32 |-> [n \in Names |->
                     IF n \in copied /\ IsChunkBased(kinds[n])
                     THEN Entry(sd, kinds, d, d32, n) ELSE d32[n]],
        missing_keys |-> local_state \ sd.keys,
        unexpected_keys |-> sd.keys \ local_state]

\* load_state_dict(module, client, state_dict, strict): the copies are made
\* before the error messages are looked at
load_state_dict(sd, kinds, d, d32, strict) ==
    LET r == load_from_state_dict(sd, kinds, d, d32)
    IN [data |-> r.data, data_fp32 |-> r.data_fp32,
        raised |-> strict /\ (r.missing_keys # {} \/ r.unexpected_keys # {})]

NoCheckpoint ==
    [kind |-> "none", keys |-> {}, vals |-> [n \in Names |-> 0],
     at_data |-> [n \in Names |-> 0], at_fp32 |-> [n \in Names |-> 0],
     trained |-> FALSE]

\* model.state_dict(), kept in memory or written with torch.save and read
\* back with torch.load
SaveCheckpoint(medium) ==
    /\ medium \in {"memory", "file"}
    /\ LET sd == state_dict(layout, data, data_fp32)
       IN saved' = [kind |-> medium, keys |-> sd.keys, vals |-> sd.vals,
                    at_data |-> data, at_fp32 |-> data_fp32, trained |-> FALSE]
    /\ load_result' = "none"
    /\ UNCHANGED <<layout, data, data_fp32>>
    /\ UNCHANGED dirvars
    /\ UNCHANGED chunkvars

\* A training step: the optimizer writes the fp32 data of the local
\* chunk-based parameters and copies them to the fp16 data; it writes the
\* other local parameters, and the forward pass the persistent buffers.
TrainStep(new) ==
    /\ new \in [Names -> Vals]
    /\ \A n \in Names :
           layout[n] \in {"chunk_remote", "torch_remote", "np_buffer"} =>
               new[n] = data[n]
    /\ data' = [n \in Names |->
                   IF layout[n] = "chunk_local" THEN Half(new[n]) ELSE new[n]]
    /\ data_fp32' = [n \in Names |->
                   IF layout[n] = "chunk_local" THEN new[n] ELSE data_fp32[n]]
    /\ <<data', data_fp32'>> # <<data, data_fp32>>
    /\ saved' = IF saved.kind = "none" THEN saved
                ELSE [saved EXCEPT !.trained = TRUE]
    /\ load_result' = "none"
    /\ UNCHANGED layout
    /\ UNCHANGED dirvars
    /\ UNCHANGED chunkvars

\* model.load_state_dict of the dict the caller holds
LoadCheckpoint(strict) ==
    /\ saved.kind # "none"
    /\ LET r == load_state_dict(saved, layout, data, data_fp32, strict)
       IN /\ data' = r.data
          /\ data_fp32' = r.data_fp32
          /\ load_result' = IF r.raised THEN "raised" ELSE "ok"
    /\ UNCHANGED <<layout, saved>>
    /\ UNCHANGED dirvars
    /\ UNCHANGED chunkvars

\* the loss of the evaluation batch: a function of the tensors the forward
\* pass reads, the fp16 data of the chunk-based parameters among them
RECURSIVE Loss(_, _)
Loss(d, S) ==
    IF S = {} THEN 0
    ELSE LET n == CHOOSE x \in S : TRUE IN n * d[n] + Loss(d, S \ {n})

\* -------------------------------------------------------- specifications
\* the element counts of the tensors: one tensor of two elements among
\* tensors of one
NumelChoices ==
    { [t \in TensorIds |-> IF t = k THEN 2 ELSE 1] : k \in TensorIds }

\* Chunk.__init__: the payload is created on the device the manager
\* schedules (here cpu) and accounted for; an empty item list; every tensor
\* is FREE and no owner has a view
InitChunk(numels) ==
    /\ ps_numel \in numels
    /\ tensor_id_to_info_dict = <<>>
    /\ tensor_status = [t \in TensorIds |-> "FREE"]
    /\ chunk_device = "cpu"
    /\ payload_device = "cpu"
    /\ hps_used = [t \in Tiers |-> IF t = "cpu" THEN ChunkBytes ELSE 0]
    /\ ps_view = [t \in TensorIds |-> NoView]
    /\ payload = [x \in Cells |-> 0]
    /\ timestamp = 0

\* ChunkList.__init__ under one of the configurations, with the manager in
\* warm-up training or past it
InitDirectory(configs, warmups) ==
    /\ mgr_mom \in [warmup : warmups, cur_mom : {0}]
    /\ access_moments = [c \in ChunkIds |-> [t \in Tiers |-> <<>>]]
    /\ config \in configs
    /\ id_to_chunk_map = <<>>
    /\ chunk_type_to_id_list_map = [t \in ChunkTypes |-> <<>>]
    /\ mgr_used = [t \in Tiers |-> 0]
    /\ comm_infos = <<>>
    /\ selection = NoSelect
    /\ threads = [th \in Threads |-> NoCall]
    /\ raced = NotRaced

\* ChunkList.__init__ after warm-up training
InitWith(configs) == InitDirectory(configs, {FALSE})

OneNumel == {[t \in TensorIds |-> 1]}

\* a module after initialisation: the fp16 data of a local chunk-based
\* parameter is the copy of its fp32 data; no checkpoint taken
InitModule(layouts) ==
    /\ layout \in layouts
    /\ data = [n \in Names |-> 0]
    /\ data_fp32 = [n \in Names |-> 0]
    /\ saved = NoCheckpoint
    /\ load_result = "none"

OneLayout == {[n \in Names |-> IF n = 1 THEN "chunk_local" ELSE "unregistered"]}

\* modules of one local chunk-based parameter and one more tensor
Layouts ==
    {[n \in Names |-> IF n = 1 THEN "chunk_local" ELSE k] :
         k \in {"chunk_local", "chunk_remote", "torch_local", "unregistered",
                "buffer", "np_buffer"}}

Init == InitWith(SmallConfigs) /\ InitChunk(OneNumel)
    /\ InitModule(OneLayout)

Next ==
    \/ \E c \in ChunkIds, type \in config.types :
           NewChunk(c, config.size[c], type)
    \/ \E c \in ChunkIds, dev \in Tiers : \E nm \in MomsFor(dev) :
           AccessChunk(c, dev, nm)
    \/ \E dev \in Tiers, need \in 1..MaxNeed : \E nm \in MomsFor(dev) :
           PrepareDevice(dev, need, nm)
    \/ \E dev \in Tiers, size \in 0..MaxNeed : \E nm \in MomsFor(dev) :
           MakeRoom(dev, size, nm)
    \/ \E c \in ChunkIds, dev \in Tiers : ChunkMove(c, dev)
    \/ \E c \in ChunkIds, o \in ItemStates, n \in ItemStates : UpdateState(c, o, n)
    \/ \E c \in ChunkIds : Pin(c)

\* the Directory under small budgets
Spec == Init /\ [][Next]_vars

\* the Directory under the budgets of the scenario
InitScenario == InitWith({ScenarioConfig}) /\ InitChunk(OneNumel)
    /\ InitModule(OneLayout)

SpecScenario == InitScenario /\ [][Next]_vars

\* the registry: chunks of both types, on one process or two
MaxWorld == 2

RegistryConfigs ==
    {[ava |-> [cpu |-> 4, cuda |-> 2], size |-> [c \in ChunkIds |-> 1],
      types |-> ChunkTypes, world_size |-> w] : w \in 1..MaxWorld}

InitRegistry == InitWith(RegistryConfigs) /\ InitChunk(OneNumel)
    /\ InitModule(OneLayout)

\* the client creates chunks, with fresh and with registered ids, and the
\* owners access and move them
NextRegistry ==
    \/ \E c \in ChunkIds, type \in config.types :
           NewChunk(c, config.size[c], type)
    \/ \E c \in ChunkIds, dev \in Tiers : \E nm \in MomsFor(dev) :
           AccessChunk(c, dev, nm)
    \/ \E c \in ChunkIds, dev \in Tiers : ChunkMove(c, dev)

SpecRegistry == InitRegistry /\ [][NextRegistry]_vars

\* one Chunk and its owners
InitAllocator == InitWith({ScenarioConfig}) /\ InitChunk(NumelChoices)
    /\ InitModule(OneLayout)

NextChunk ==
    \/ \E t \in TensorIds, st \in ItemStates : TryAllocate(t, st)
    \/ \E t \in TensorIds : Release(t)
    \/ \E t \in TensorIds : SetStatus(t)

SpecChunk == InitAllocator /\ [][NextChunk]_vars

\* the tensors whose owners act on the chunk while it moves
Owners == 1..MaxOwners

\* one Chunk, its owners and its moves between the devices; the mappings
\* given to move know every tensor (2 and 3 by data, 1 by grad), or miss some
DataMappings == {TensorIds \ {1}, {}}
GradMappings == {{1}, {}}

InitMove == InitWith({ScenarioConfig}) /\ InitChunk(OneNumel)
    /\ InitModule(OneLayout)

NextMove ==
    \/ \E t \in Owners : TryAllocate(t, "HOLD")
    \/ \E t \in Owners : Release(t)
    \/ \E d \in DataMappings, g \in GradMappings, dev \in Tiers : Move(d, g, dev)

SpecMove == InitMove /\ [][NextMove]_vars

\* one Chunk whose owners write their tensors: two tensors of one element
\* and one of two
LastIsLong == {[t \in TensorIds |-> IF t = MaxTensors THEN 2 ELSE 1]}

InitPayload == InitWith({ScenarioConfig}) /\ InitChunk(LastIsLong)
    /\ InitModule(OneLayout)

NextPayload ==
    \/ \E t \in TensorIds : TryAllocate(t, "HOLD")
    \/ \E t \in TensorIds : Release(t)
    \/ \E t \in TensorIds : WriteTensor(t)

SpecPayload == InitPayload /\ [][NextPayload]_vars

\* one Chunk with two owners, which allocate, compute, write and release,
\* and its moves between the devices with mappings that know the owners (2
\* by data, 1 by grad) or miss some
InitTiers == InitWith({ScenarioConfig}) /\ InitChunk(OneNumel)
    /\ InitModule(OneLayout)

NextTiers ==
    \/ \E t \in Owners, st \in ItemStates : TryAllocate(t, st)
    \/ \E t \in Owners : Release(t)
    \/ \E t \in Owners : SetStatus(t)
    \/ \E t \in Owners : WriteTensor(t)
    \/ \E d \in DataMappings, g \in GradMappings, dev \in Tiers : Move(d, g, dev)

SpecTiers == InitTiers /\ [][NextTiers]_vars

\* the Directory with a victim selection that runs step by step while the
\* Directory is otherwise at rest
NextSelect ==
    \/ /\ selection.pc = "idle"
       /\ \E c \in ChunkIds, type \in config.types : NewChunk(c, config.size[c], type)
    \/ /\ selection.pc = "idle"
       /\ \E c \in ChunkIds, dev \in Tiers : \E nm \in MomsFor(dev) :
              AccessChunk(c, dev, nm)
    \/ /\ selection.pc = "idle"
       /\ \E c \in ChunkIds : Pin(c)
    \/ \E dev \in Tiers, size \in 0..MaxNeed : \E nm \in MomsFor(dev) :
           SelectBegin(size, dev, nm)
    \/ SelectPop
    \/ SelectExit
    \/ SelectReturn

SpecSelect == Init /\ [][NextSelect]_vars

\* the thread that runs the selection goes on running
SpecSelectFair ==
    SpecSelect /\ WF_vars(SelectPop) /\ WF_vars(SelectExit)

\* the Directory with two threads that run access_chunk without a lock
NextThreads ==
    \/ /\ \A th \in Threads : threads[th].pc = "idle"
       /\ \E c \in ChunkIds, type \in config.types : NewChunk(c, config.size[c], type)
    \/ \E th \in Threads, c \in ChunkIds, dev \in Tiers : ThreadCall(th, c, dev)
    \/ \E th \in Threads : ThreadRead(th)
    \/ \E th \in Threads : \E nm \in MomsFor(threads[th].dev) : ThreadPlace(th, nm)

SpecThreads == Init /\ [][NextThreads]_vars

\* the Directory during and after warm-up training
InitWarmup == InitDirectory(SmallConfigs, {TRUE}) /\ InitChunk(OneNumel)
    /\ InitModule(OneLayout)

NextWarmup ==
    \/ \E c \in ChunkIds, type \in config.types : NewChunk(c, config.size[c], type)
    \/ \E c \in ChunkIds, dev \in Tiers : \E nm \in MomsFor(dev) :
           AccessChunk(c, dev, nm)
    \/ Tick
    \/ EndWarmup

SpecWarmup == InitWarmup /\ [][NextWarmup]_vars

\* a module, its training and its checkpoints
InitCheckpoint ==
    InitWith({ScenarioConfig}) /\ InitChunk(OneNumel) /\ InitModule(Layouts)

NextCheckpoint ==
    \/ \E new \in [Names -> Vals] : TrainStep(new)
    \/ \E medium \in {"memory", "file"} : SaveCheckpoint(medium)
    \/ \E strict \in BOOLEAN : LoadCheckpoint(strict)

SpecCheckpoint == InitCheckpoint /\ [][NextCheckpoint]_vars

\* ---------------------------------------------------------------- claims
\* the calls an owner can make in the current state
Needs == 1..MaxNeed
OffloadSizes == 0..MaxNeed

\* in use: in COMPUTE state, or pinned
InUse(m, c) == m[c].device # NoDevice /\ (m[c].status = "COMPUTE" \/ m[c].pin)

\* the bytes of the resident chunks of tier t that are not in use
RECURSIVE SumSize(_, _)
SumSize(m, S) ==
    IF S = {} THEN 0
    ELSE LET c == CHOOSE x \in S : TRUE IN m[c].size + SumSize(m, S \ {c})

NotInUseOn(m, t) == {c \in DOMAIN m : m[c].device = t /\ ~InUse(m, c)}

\* C1: every chunk victim selection returns is resident on the target tier,
\* not in COMPUTE state and not pinned; so a chunk in COMPUTE state or
\* pinned keeps its device through every prepare_device and make_room call.
C1_VictimsNotInUse ==
    \A t \in Tiers, nm \in MomChoices :
        /\ \A size \in OffloadSizes :
              LET sel == chunk_to_move_out_for_room_making(id_to_chunk_map, size, t, nm)
                  mr == make_room(Now, size, t, nm)
              IN /\ \A i \in 1..Len(sel.moved_list) :
                        LET c == sel.moved_list[i]
                        IN /\ c \in DOMAIN id_to_chunk_map
                           /\ id_to_chunk_map[c].device = t
                           /\ ~InUse(id_to_chunk_map, c)
                 /\ \A c \in DOMAIN id_to_chunk_map :
                        InUse(id_to_chunk_map, c) =>
                            mr.m[c].device = id_to_chunk_map[c].device
        /\ \A need \in Needs :
              LET p == prepare_device(Now, t, need, nm)
              IN \A c \in DOMAIN id_to_chunk_map :
                     InUse(id_to_chunk_map, c) =>
                         p.m[c].device = id_to_chunk_map[c].device

\* C1 case: a prepare_device call evicts a chunk from a tier on which
\* another chunk is in use.
C1_Witness ==
    \E t \in Tiers, need \in Needs, nm \in MomChoices :
        LET p == prepare_device(Now, t, need, nm)
        IN /\ ~p.raised
           /\ p.victims # <<>>
           /\ \E c \in DOMAIN id_to_chunk_map :
                  InUse(id_to_chunk_map, c) /\ id_to_chunk_map[c].device = t

\* C2: the bytes of the chunks resident on a tier never exceed the tier's
\* available chunk memory.
C2_WithinBudget ==
    \A t \in Tiers : get_chunk_memory_used(id_to_chunk_map, t) <= available_chunk_mem(t)

\* C2 case: both tiers hold chunks, one is full, and an access that has to
\* evict from the full tier succeeds.
C2_Witness ==
    /\ \A t \in Tiers : get_chunk_memory_used(id_to_chunk_map, t) > 0
    /\ \E t \in Tiers, c \in DOMAIN id_to_chunk_map, nm \in MomChoices :
          LET r == access_chunk(Now, c, t, nm)
          IN /\ get_chunk_memory_used(id_to_chunk_map, t) = available_chunk_mem(t)
             /\ ~r.raised
             /\ r.victims # <<>>

\* C3: an access_chunk call that returns leaves the chunk on compute_device.
C3_AccessedOnDevice ==
    \A c \in DOMAIN id_to_chunk_map, dev \in Tiers, nm \in MomChoices :
        LET r == access_chunk(Now, c, dev, nm)
        IN ~r.raised => r.m[c].device = dev

\* C3 case: a chunk is moved from the other tier after an eviction that
\* makes room for it.
C3_Witness ==
    \E c \in DOMAIN id_to_chunk_map, dev \in Tiers, nm \in MomChoices :
        LET r == access_chunk(Now, c, dev, nm)
        IN /\ r.branch = "move"
           /\ ~r.raised
           /\ r.victims # <<>>
           /\ r.m[c].device = dev

\* C4: after an access_chunk call that returned, the same call again is a
\* no-op: it runs no prepare_device, selects no victim, and leaves the
\* device of every chunk and the manager's accounting as they are.
C4_SecondAccessNoOp ==
    \A c \in DOMAIN id_to_chunk_map, dev \in Tiers, nm \in MomChoices :
        LET r1 == access_chunk(Now, c, dev, nm)
        IN ~r1.raised =>
               \A nm2 \in MomChoices :
                   LET r2 == access_chunk([m |-> r1.m, used |-> r1.used], c, dev, nm2)
                   IN /\ ~r2.raised
                      /\ r2.branch = "resident"
                      /\ ~r2.prepared
                      /\ ~r2.selected
                      /\ r2.victims = <<>>
                      /\ r2.m = r1.m
                      /\ r2.used = r1.used

\* C4 case: the first call materialises a released chunk on a full tier
\* after an eviction; the second call finds it resident.
C4_Witness ==
    \E c \in DOMAIN id_to_chunk_map, dev \in Tiers, nm \in MomChoices :
        LET r1 == access_chunk(Now, c, dev, nm)
            r2 == access_chunk([m |-> r1.m, used |-> r1.used], c, dev, nm)
        IN /\ r1.branch = "allocate"
           /\ ~r1.raised
           /\ r1.victims # <<>>
           /\ r2.branch = "resident"

\* C5: when the tier's available chunk memory is smaller than the needed
\* bytes, prepare_device raises, runs no victim selection and moves nothing;
\* so does an access_chunk call that has to prepare the device.
C5_NoRoomEver ==
    \A t \in Tiers, nm \in MomChoices :
        /\ \A need \in Needs :
              LET p == prepare_device(Now, t, need, nm)
              IN available_chunk_mem(t) < need =>
                     /\ p.raised
                     /\ ~p.selected
                     /\ p.m = id_to_chunk_map
                     /\ p.used = mgr_used
        /\ \A c \in DOMAIN id_to_chunk_map :
              LET r == access_chunk(Now, c, t, nm)
              IN (r.prepared /\ available_chunk_mem(t) < id_to_chunk_map[c].size) =>
                     /\ r.raised
                     /\ ~r.selected
                     /\ r.m = id_to_chunk_map
                     /\ r.used = mgr_used

\* C5 case: a chunk larger than the budget of a tier is accessed there
\* while the tier holds chunks that could be evicted.
C5_Witness ==
    \E t \in Tiers, c \in DOMAIN id_to_chunk_map, nm \in MomChoices :
        LET r == access_chunk(Now, c, t, nm)
        IN /\ r.prepared
           /\ available_chunk_mem(t) < id_to_chunk_map[c].size
           /\ r.raised
           /\ NotInUseOn(id_to_chunk_map, t) # {}

\* C7: when the chunks of the target tier that are not in use sum to less
\* than the deficit, victim selection raises and the call fails with every
\* chunk where it was.
C7_DeficitUnmet ==
    \A t \in Tiers, nm \in MomChoices :
        LET idle == SumSize(id_to_chunk_map, NotInUseOn(id_to_chunk_map, t))
        IN /\ \A size \in OffloadSizes :
                 LET sel == chunk_to_move_out_for_room_making(id_to_chunk_map, size, t, nm)
                     mr == make_room(Now, size, t, nm)
                 IN idle < size =>
                        /\ sel.raised
                        /\ mr.raised
                        /\ mr.m = id_to_chunk_map
                        /\ mr.used = mgr_used
           /\ \A need \in Needs :
                 LET p == prepare_device(Now, t, need, nm)
                 IN (p.selected /\ idle < p.deficit) =>
                        /\ p.raised
                        /\ p.m = id_to_chunk_map
                        /\ p.used = mgr_used
           /\ \A c \in DOMAIN id_to_chunk_map :
                 LET r == access_chunk(Now, c, t, nm)
                 IN (r.selected /\ idle < r.deficit) =>
                        /\ r.raised
                        /\ r.m = id_to_chunk_map
                        /\ r.used = mgr_used

\* C7 case: a chunk in COMPUTE state that alone would meet the deficit of an
\* access stays on the tier and the access raises.
C7_Witness ==
    \E t \in Tiers, c \in DOMAIN id_to_chunk_map, nm \in MomChoices :
        LET r == access_chunk(Now, c, t, nm)
        IN /\ r.selected
           /\ r.raised
           /\ \E v \in DOMAIN id_to_chunk_map :
                  /\ id_to_chunk_map[v].device = t
                  /\ id_to_chunk_map[v].status = "COMPUTE"
                  /\ id_to_chunk_map[v].size >= r.deficit
                  /\ r.m[v].device = t

\* the order of the priority queue: next access moment descending, ties by
\* ascending chunk id
Before(nm, a, b) == nm[a] > nm[b] \/ (nm[a] = nm[b] /\ a < b)

SeqRange(v) == {v[i] : i \in 1..Len(v)}

\* v is the shortest prefix, in the order of the queue, of the chunks of
\* tier t that are not in use, with sizes summing to at least `deficit`
ShortestPrefix(m, t, nm, deficit, v) ==
    LET idle == NotInUseOn(m, t)
    IN /\ SeqRange(v) \subseteq idle
       /\ \A i, j \in 1..Len(v) : i < j => Before(nm, v[i], v[j])
       /\ \A e \in idle \ SeqRange(v) : \A i \in 1..Len(v) : Before(nm, v[i], e)
       /\ SumSize(m, SeqRange(v)) >= deficit
       /\ v # <<>> => SumSize(m, SeqRange(SubSeq(v, 1, Len(v) - 1))) < deficit

\* C6: the list victim selection returns is the shortest prefix of the
\* eligible chunks, ordered by next access moment descending and chunk id
\* ascending, whose sizes sum to at least the requested bytes.
C6_ShortestPrefix ==
    \A t \in Tiers, size \in OffloadSizes, nm \in MomChoices :
        LET sel == chunk_to_move_out_for_room_making(id_to_chunk_map, size, t, nm)
        IN ~sel.raised => ShortestPrefix(id_to_chunk_map, t, nm, size, sel.moved_list)

\* C6 for the calls that ask for at least one byte, as prepare_device does.
C6_PositiveDeficit ==
    \A t \in Tiers, size \in OffloadSizes \ {0}, nm \in MomChoices :
        LET sel == chunk_to_move_out_for_room_making(id_to_chunk_map, size, t, nm)
        IN ~sel.raised => ShortestPrefix(id_to_chunk_map, t, nm, size, sel.moved_list)

\* C8 (as amended): under the budgets fast = 100 and slow = 1000, with chunk
\* A of 60 and chunk B of 50 registered and nothing else, access_chunk(A,
\* fast) succeeds and the following access_chunk(B, fast) evicts A: then A
\* is on the slow tier, B on the fast tier and the fast tier has 50 free.
ScenarioStart ==
    /\ config = ScenarioConfig
    /\ DOMAIN id_to_chunk_map = {1, 2}
    /\ \A c \in {1, 2} : id_to_chunk_map[c].device = NoDevice

ScenarioRun(fast_free) ==
    \A nm1 \in MomChoices, nm2 \in MomChoices :
        LET r1 == access_chunk(Now, 1, "cuda", nm1)
            r2 == access_chunk([m |-> r1.m, used |-> r1.used], 2, "cuda", nm2)
        IN /\ ~r1.raised
           /\ r1.m[1].device = "cuda"
           /\ ~r2.raised
           /\ r2.victims = <<1>>
           /\ r2.m[1].device = "cpu"
           /\ r2.m[2].device = "cuda"
           /\ free_chunk_mem(r2.used, "cuda") = fast_free

C8_ScenarioFree50 == ScenarioStart => ScenarioRun(50)

\* C8 case: A and B are registered and not yet materialised; the access
\* of A finds the fast tier free, the access of B finds it 10 units short.
C8_Witness ==
    /\ ScenarioStart
    /\ id_to_chunk_map[1].size = 60
    /\ id_to_chunk_map[2].size = 50
    /\ LET r1 == access_chunk(Now, 1, "cuda", NoMom)
           r2 == access_chunk([m |-> r1.m, used |-> r1.used], 2, "cuda", NoMom)
       IN /\ r1.branch = "allocate" /\ ~r1.selected
          /\ r2.branch = "allocate" /\ r2.selected /\ r2.deficit = 10
          /\ r2.m[1].device = "cpu" /\ r2.m[2].device = "cuda"

\* C8 as stated: ... and the fast tier has 40 free.
C8_ScenarioFree40 == ScenarioStart => ScenarioRun(40)

\* the items the chunk holds, as ranges [start, start + numel)
Overlap(a, b) ==
    /\ a.start < b.start + ps_numel[b.tensor_id]
    /\ b.start < a.start + ps_numel[a.tensor_id]

Held(i) == tensor_status[tensor_id_to_info_dict[i].tensor_id] # "FREE"

\* C9 (as amended): the ranges of every two items of the chunk that are not
\* FREE are disjoint.
C9_HeldItemsDisjoint ==
    \A i, j \in 1..Len(tensor_id_to_info_dict) :
        (i # j /\ Held(i) /\ Held(j)) =>
            ~Overlap(tensor_id_to_info_dict[i], tensor_id_to_info_dict[j])

\* C9 case: two held items side by side, and a third item allocated into
\* the range of a released one.
C9_Witness ==
    \E i, j, k \in 1..Len(tensor_id_to_info_dict) :
        /\ i # j /\ Held(i) /\ Held(j)
        /\ ~Held(k)
        /\ Overlap(tensor_id_to_info_dict[k], tensor_id_to_info_dict[i])

\* C9 as stated: the ranges of every two item descriptors the chunk holds
\* are disjoint.
C9_AllItemsDisjoint ==
    \A i, j \in 1..Len(tensor_id_to_info_dict) :
        i # j => ~Overlap(tensor_id_to_info_dict[i], tensor_id_to_info_dict[j])

\* C10: get_status is COMPUTE iff an item of the chunk is in COMPUTE;
\* otherwise HOLD iff an item is not FREE; otherwise FREE, also for a chunk
\* without items; it is never RELEASED.
C10_StatusAggregation ==
    LET s == get_status(tensor_id_to_info_dict, tensor_status)
        items == {tensor_id_to_info_dict[i].tensor_id :
                      i \in 1..Len(tensor_id_to_info_dict)}
        computing == \E t \in items : tensor_status[t] = "COMPUTE"
        held == \E t \in items : tensor_status[t] # "FREE"
    IN /\ s \in {"COMPUTE", "HOLD", "FREE"}
       /\ s = "COMPUTE" <=> computing
       /\ s = "HOLD" <=> (~computing /\ held)
       /\ s = "FREE" <=> ~held
       /\ items = {} => s = "FREE"

\* C10 case: a chunk with a FREE item, a held item and a computing item, the
\* computing one not the first in start order.
C10_Witness ==
    \E i, j, k \in 1..Len(tensor_id_to_info_dict) :
        /\ tensor_status[tensor_id_to_info_dict[i].tensor_id] = "FREE"
        /\ tensor_status[tensor_id_to_info_dict[j].tensor_id] = "HOLD"
        /\ tensor_status[tensor_id_to_info_dict[k].tensor_id] = "COMPUTE"
        /\ tensor_id_to_info_dict[j].start < tensor_id_to_info_dict[k].start
        /\ get_status(tensor_id_to_info_dict, tensor_status) = "COMPUTE"

\* the items of the chunk, by their place in the dict
Items == 1..Len(tensor_id_to_info_dict)

\* the owner of item i views the payload on device dev at the item's range
ViewsItem(view, dev, i) ==
    LET info == tensor_id_to_info_dict[i]
    IN view[info.tensor_id] = Narrow(dev, info.start, ps_numel[info.tensor_id])

\* after every move to another device that does not raise, the items in
\* `which` are viewed by their owners in the new payload, at their starts,
\* and the item list is as before
MoveKeepsViews(which) ==
    \A d \in SUBSET TensorIds, g \in SUBSET TensorIds, dev \in Tiers \ {chunk_device} :
        LET r == move(Self, tensor_status, ps_numel, d, g, dev)
        IN ~r.raised =>
               /\ r.device = dev /\ r.payload = dev
               /\ r.dict = tensor_id_to_info_dict
               /\ \A i \in which : ViewsItem(r.view, r.payload, i)

\* C11 (as amended): after a successful Chunk.move to a different device,
\* every item of the chunk that is not FREE is reachable through its owning
\* parameter as a view of the new payload at the same start and with the
\* same element count; the starts and the set of item descriptors are
\* unchanged.
C11_HeldItemsFollowMove == MoveKeepsViews({i \in Items : Held(i)})

\* C11 case: the chunk was moved to cuda with an item in use behind a
\* released one, whose owner still views the payload left on cpu.
C11_Witness ==
    /\ chunk_device = "cuda" /\ payload_device = "cuda"
    /\ \E i, k \in Items :
           /\ Held(i) /\ ~Held(k)
           /\ tensor_id_to_info_dict[k].start < tensor_id_to_info_dict[i].start
           /\ ViewsItem(ps_view, "cuda", i)
           /\ ViewsItem(ps_view, "cpu", k)

\* C11 as stated: ... every item that was in the chunk before the move ...
C11_AllItemsFollowMove == MoveKeepsViews(Items)

\* C12: new_chunk with a registered chunk_id raises and leaves the id-to-chunk
\* map, every type's id list and the chunk under that id as they were.
C12_DuplicateIdRejected ==
    \A c \in DOMAIN id_to_chunk_map, size \in 1..MaxNeed, type \in ChunkTypes :
        LET r == new_chunk(id_to_chunk_map, chunk_type_to_id_list_map, c, size, type,
                           config.world_size)
        IN /\ r.raised
           /\ r.m = id_to_chunk_map
           /\ r.lists = chunk_type_to_id_list_map
           /\ r.m[c] = id_to_chunk_map[c]

\* C12 case: the registered chunk is materialised and of another size and
\* type than the duplicate the client asks for.
C12_Witness ==
    \E c \in DOMAIN id_to_chunk_map, type \in ChunkTypes :
        /\ id_to_chunk_map[c].device = "cuda"
        /\ comm_infos[c].chunk_type # type
        /\ id_to_chunk_map[c].size # MaxNeed
        /\ new_chunk(id_to_chunk_map, chunk_type_to_id_list_map, c, MaxNeed, type,
                     config.world_size).raised

\* C13: the token of the k-th chunk of a type, counted within the type, has
\* group_id = (k - 1) div world_size and offset = (k - 1) mod world_size; so
\* within a type the pairs (group_id, offset) are pairwise distinct and
\* 0 <= offset < world_size.
C13_TokenByCategoryCount ==
    \A type \in ChunkTypes :
        LET ids == chunk_type_to_id_list_map[type]
        IN /\ \A k \in 1..Len(ids) :
                  /\ comm_infos[ids[k]].chunk_type = type
                  /\ comm_infos[ids[k]].group_id = (k - 1) \div config.world_size
                  /\ comm_infos[ids[k]].offset = (k - 1) % config.world_size
                  /\ comm_infos[ids[k]].offset \in 0..(config.world_size - 1)
           /\ \A j, k \in 1..Len(ids) :
                  (/\ comm_infos[ids[j]].group_id = comm_infos[ids[k]].group_id
                   /\ comm_infos[ids[j]].offset = comm_infos[ids[k]].offset) => j = k

\* C13 case: two processes; the second chunk of a type was created after a
\* chunk of the other type and still has offset 1 in group 0.
C13_Witness ==
    /\ config.world_size = 2
    /\ \E type \in ChunkTypes, other \in ChunkTypes :
           /\ type # other
           /\ Len(chunk_type_to_id_list_map[type]) = 2
           /\ Len(chunk_type_to_id_list_map[other]) = 1
           /\ chunk_type_to_id_list_map[other][1] < chunk_type_to_id_list_map[type][2]
           /\ comm_infos[chunk_type_to_id_list_map[type][2]].offset = 1
           /\ comm_infos[chunk_type_to_id_list_map[type][2]].group_id = 0

\* every registered id is in exactly one list, once; the lists hold
\* registered ids only, in the order of creation
RegistryLists ==
    /\ \A c \in DOMAIN id_to_chunk_map :
           Cardinality({<<type, i>> \in ChunkTypes \X ChunkIds :
                           /\ i \in 1..Len(chunk_type_to_id_list_map[type])
                           /\ chunk_type_to_id_list_map[type][i] = c}) = 1
    /\ \A type \in ChunkTypes :
           LET ids == chunk_type_to_id_list_map[type]
           IN /\ Len(ids) <= MaxChunks
              /\ \A i \in 1..Len(ids) : ids[i] \in DOMAIN id_to_chunk_map
              /\ \A i, j \in 1..Len(ids) : i < j => ids[i] < ids[j]
              /\ ids # <<>> =>
                     \A i \in 1..Len(ids) :
                         ids[i] <= last_chunk_id(chunk_type_to_id_list_map, type)

\* a step only appends to the lists
ListsGrowByAppend ==
    \A type \in ChunkTypes :
        LET ids == chunk_type_to_id_list_map[type]
            after == chunk_type_to_id_list_map'[type]
        IN Len(ids) <= Len(after) /\ SubSeq(after, 1, Len(ids)) = ids

\* C14: after any sequence of new_chunk calls, successful or failing, every
\* registered id is in exactly one type's list and exactly once, no
\* unregistered id is in a list, and each list is append-only: it holds its
\* ids in creation order and no step reorders or removes a prefix.
C14_ListsAppendOnly == [][RegistryLists /\ RegistryLists' /\ ListsGrowByAppend]_vars

\* C14 case: three chunks registered under both types, the types
\* interleaved, and the first one materialised.
C14_Witness ==
    /\ DOMAIN id_to_chunk_map = ChunkIds
    /\ \A type \in ChunkTypes : chunk_type_to_id_list_map[type] # <<>>
    /\ \E type \in ChunkTypes : chunk_type_to_id_list_map[type] = <<1, 3>>
    /\ id_to_chunk_map[1].device # NoDevice

\* C15: chunk_move raises, with the chunk on its device and the accounting
\* as before, whenever the destination tier has less free chunk memory than
\* the chunk's payload; when it succeeds the chunk is on the device.
C15_MoveRechecksRoom ==
    \A c \in Materialised(id_to_chunk_map), dev \in Tiers :
        LET r == chunk_move(Now, c, dev)
            short == free_chunk_mem(mgr_used, dev) < get_payload_space(id_to_chunk_map, c)
        IN /\ short => /\ r.raised
                       /\ r.m = id_to_chunk_map
                       /\ r.used = mgr_used
           /\ ~r.raised => r.m[c].device = dev

\* C15 case: one chunk is too large for what is free on the other tier and
\* its move is refused, while a smaller chunk can move there.
C15_Witness ==
    \E c, d \in Materialised(id_to_chunk_map), dev \in Tiers :
        /\ id_to_chunk_map[c].device # dev
        /\ id_to_chunk_map[d].device # dev
        /\ 0 < free_chunk_mem(mgr_used, dev)
        /\ chunk_move(Now, c, dev).raised
        /\ ~chunk_move(Now, d, dev).raised
        /\ chunk_move(Now, d, dev).m[d].device = dev

\* the module has the values it had when the checkpoint was taken: the fp16
\* and the fp32 data of every local chunk-based parameter, every ordinary
\* parameter and persistent buffer, and so the loss of the evaluation
Restored ==
    /\ \A n \in Names :
           /\ layout[n] = "chunk_local" =>
                  data[n] = saved.at_data[n] /\ data_fp32[n] = saved.at_fp32[n]
           /\ layout[n] \in {"torch_local", "unregistered", "buffer"} =>
                  data[n] = saved.at_data[n]
    /\ Loss(data, Names) = Loss(saved.at_data, Names)

\* C16 (as amended): if the state dict was written with torch.save when it
\* was taken and read back with torch.load, then after load_state_dict the
\* module has the values and the loss it had at save time, whatever
\* training did in between.
C16_RoundTripThroughFile ==
    (load_result = "ok" /\ saved.kind = "file") => Restored

\* C16 case: a checkpoint on file, taken when the fp32 data of a chunk-based
\* parameter held a value fp16 cannot hold, loaded after further training.
C16_Witness ==
    /\ load_result = "ok" /\ saved.kind = "file" /\ saved.trained
    /\ \E n \in Names :
           /\ layout[n] = "chunk_local"
           /\ saved.at_fp32[n] # Half(saved.at_fp32[n])
           /\ data_fp32[n] = saved.at_fp32[n]
    /\ \E n \in Names : layout[n] \in {"unregistered", "buffer", "torch_local"}

\* C16 as stated: after the state dict is taken, the parameters changed by
\* training and the dict loaded, the module has the values and the loss it
\* had at save time.
C16_RoundTrip ==
    load_result = "ok" => Restored

\* C17: when the target tier's available memory and its free chunk memory
\* are both at least the needed bytes, prepare_device runs no victim
\* selection, moves no chunk and leaves devices and accounting as they were.
C17_EnoughFreeNoOp ==
    \A t \in Tiers, need \in Needs, nm \in MomChoices :
        (available_chunk_mem(t) >= need /\ free_chunk_mem(mgr_used, t) >= need) =>
            LET p == prepare_device(Now, t, need, nm)
            IN /\ ~p.raised
               /\ ~p.selected
               /\ p.victims = <<>>
               /\ p.m = id_to_chunk_map
               /\ p.used = mgr_used

\* C17 case: the tier holds a chunk that could be evicted, and still has the
\* needed bytes free.
C17_Witness ==
    \E t \in Tiers, need \in Needs :
        /\ Movable(id_to_chunk_map, t) # {}
        /\ free_chunk_mem(mgr_used, t) >= need
        /\ free_chunk_mem(mgr_used, t) < available_chunk_mem(t)
        /\ ~prepare_device(Now, t, need, NoMom).selected

\* C18: when available >= need > free on the target tier, prepare_device
\* asks for victims of exactly need - free bytes on that tier and moves the
\* selected victims to the other tier type; when it then returns without
\* raising, every victim is on the other tier and the free chunk memory of
\* the target tier is at least the need.
C18_EvictsTheDeficit ==
    \A t \in Tiers, need \in Needs, nm \in MomChoices :
        LET free == free_chunk_mem(mgr_used, t)
            p == prepare_device(Now, t, need, nm)
            sel == chunk_to_move_out_for_room_making(id_to_chunk_map, need - free, t, nm)
        IN (available_chunk_mem(t) >= need /\ need > free) =>
               /\ p.selected
               /\ p.deficit = need - free
               /\ sel.raised => p.raised
               /\ ~sel.raised => p.victims = sel.moved_list
               /\ ~p.raised =>
                      /\ \A i \in 1..Len(p.victims) :
                             /\ id_to_chunk_map[p.victims[i]].device = t
                             /\ p.m[p.victims[i]].device = new_device(t)
                             /\ p.m[p.victims[i]].device # t
                      /\ free_chunk_mem(p.used, t) >= need

\* C18 case: part of the need is free, and two chunks have to leave the
\* tier to free the rest.
C18_Witness ==
    \E t \in Tiers, need \in Needs, nm \in MomChoices :
        LET p == prepare_device(Now, t, need, nm)
        IN /\ available_chunk_mem(t) >= need
           /\ need > free_chunk_mem(mgr_used, t)
           /\ ~p.raised
           /\ Len(p.victims) = 2
           /\ p.deficit = 2

\* C19: in an access_chunk call that changes placement, prepare_device for
\* the chunk's bytes on the target device is done before the chunk is
\* placed: a RELEASED chunk is materialised on the target device without a
\* move, a chunk on the other tier is moved, and at that moment the target
\* tier has at least the chunk's bytes free.
C19_PrepareThenPlace ==
    \A c \in DOMAIN id_to_chunk_map, dev \in Tiers, nm \in MomChoices :
        LET r == access_chunk(Now, c, dev, nm)
            bytes == get_chunk_space(id_to_chunk_map, c)
            p == prepare_device(Now, dev, bytes, nm)
            before == id_to_chunk_map[c].device
        IN (~r.raised /\ r.m[c].device # before) =>
               /\ r.prepared
               /\ ~p.raised
               /\ r.placed_with_free >= bytes
               /\ r.placed_with_free = free_chunk_mem(p.used, dev)
               /\ r.m = [p.m EXCEPT ![c].device = dev]
               /\ before = NoDevice =>
                      /\ r.branch = "allocate"
                      /\ r.used = [p.used EXCEPT ![dev] = @ + bytes]
               /\ before # NoDevice =>
                      /\ r.branch = "move"
                      /\ before = new_device(dev)
                      /\ r.used = [p.used EXCEPT ![dev] = @ + bytes,
                                                  ![before] = @ - bytes]

\* C19 case: the target tier lacks the bytes of a chunk that is on the
\* other tier; the access evicts first and moves the chunk into the room.
C19_Witness ==
    \E c \in DOMAIN id_to_chunk_map, dev \in Tiers, nm \in MomChoices :
        LET r == access_chunk(Now, c, dev, nm)
        IN /\ r.branch = "move"
           /\ ~r.raised
           /\ free_chunk_mem(mgr_used, dev) < get_chunk_space(id_to_chunk_map, c)
           /\ r.placed_with_free >= get_chunk_space(id_to_chunk_map, c)
           /\ r.victims # <<>>

\* C20: no Directory operation changes the device of a chunk that is in
\* COMPUTE state when the operation is called: not access_chunk or
\* chunk_move on the chunk itself, and not an eviction by prepare_device or
\* make_room.
C20_ComputeChunkStays ==
    \A x \in Materialised(id_to_chunk_map) :
        get_state(id_to_chunk_map, x) = "COMPUTE" =>
            \A t \in Tiers, nm \in MomChoices :
                /\ \A c \in DOMAIN id_to_chunk_map :
                       /\ access_chunk(Now, c, t, nm).m[x].device = id_to_chunk_map[x].device
                       /\ c \in Materialised(id_to_chunk_map) =>
                              chunk_move(Now, c, t).m[x].device = id_to_chunk_map[x].device
                /\ \A need \in Needs :
                       prepare_device(Now, t, need, nm).m[x].device = id_to_chunk_map[x].device
                /\ \A size \in OffloadSizes :
                       make_room(Now, size, t, nm).m[x].device = id_to_chunk_map[x].device

\* the cells of the payload inside the range of an item that is not FREE
Occupied ==
    UNION { tensor_id_to_info_dict[i].start ..
              (tensor_id_to_info_dict[i].start
                 + ps_numel[tensor_id_to_info_dict[i].tensor_id] - 1) :
            i \in { j \in Items : Held(j) } }

\* n elements at offset o lie inside the capacity and off every item in use
Fits(o, n) ==
    /\ o + n <= Capacity
    /\ \A x \in o..(o + n - 1) : x \notin Occupied

\* the call try_allocate(t) on the chunk as it is
TryNow(t) ==
    try_allocate(tensor_id_to_info_dict, tensor_status, ps_numel, t,
                 payload, timestamp)

\* C21: try_allocate is first-fit: it finds a fragment iff some offset has
\* numel elements inside the capacity and off every item that is not FREE,
\* it places the item at the lowest such offset, and when there is none it
\* returns None and installs nothing.
C21_FirstFit ==
    \A t \in TensorIds :
        LET r == TryNow(t)
            fits == { o \in Cells : Fits(o, ps_numel[t]) }
        IN /\ r.found <=> fits # {}
           /\ r.found => (r.start \in fits /\ \A o \in fits : r.start <= o)
           /\ ~r.found => r.dict = tensor_id_to_info_dict

\* C21 case: a free gap too short for the tensor lies before items in use,
\* and the tensor is placed behind it.
C21_Witness ==
    \E t \in TensorIds :
        LET r == TryNow(t)
        IN /\ r.found
           /\ \E o \in Cells : o < r.start /\ o \notin Occupied
           /\ \E o \in Cells : o < r.start /\ o \in Occupied

\* every item of the chunk that belongs to a tensor other than t is in dict2
\* with the start it has now (its element count is its tensor's)
OthersKept(dict2, t) ==
    \A i \in Items :
        tensor_id_to_info_dict[i].tensor_id # t =>
            \E j \in 1..Len(dict2) : dict2[j] = tensor_id_to_info_dict[i]

\* C22: allocation never compacts: try_allocate(t), and allocate of t at any
\* offset, leave the start of the item of every other tensor as it is (the
\* tensor of the call gets a new descriptor); a try_allocate that finds no
\* fragment leaves the item list, the payload contents and the timestamp as
\* they are.
C22_NoCompaction ==
    \A t \in TensorIds :
        LET r == TryNow(t)
        IN /\ OthersKept(r.dict, t)
           /\ \A o \in Cells : OthersKept(Chunk_allocate(tensor_id_to_info_dict, o, t), t)
           /\ ~r.found =>
                 /\ r.dict = tensor_id_to_info_dict
                 /\ r.payload = payload
                 /\ r.timestamp = timestamp

\* C22 case: the free cells of a chunk with written cells are enough for the
\* tensor but lie apart, and try_allocate fails.
C22_Witness ==
    \E t \in TensorIds :
        /\ ~TryNow(t).found
        /\ Cardinality(Cells \ Occupied) >= ps_numel[t]
        /\ \E x \in Cells : payload[x] = 1
        /\ \E i \in Items : Held(i)

\* C23: Chunk.move to the device the chunk is on, with any mappings, does
\* not raise and leaves the payload and its contents, the device, the
\* owners' views, the manager's accounting, the items and the timestamp as
\* they are.
C23_SameTierNoOp ==
    \A d, g \in SUBSET TensorIds :
        move(Self, tensor_status, ps_numel, d, g, chunk_device)
            = Self @@ [raised |-> FALSE]

\* C23 case: a chunk moved to cuda, with a written item in use that no
\* mapping knows, is moved to cuda.
C23_Witness ==
    /\ chunk_device = "cuda" /\ payload_device = "cuda"
    /\ \E i \in Items : Held(i) /\ ViewsItem(ps_view, "cuda", i)
                           /\ payload[tensor_id_to_info_dict[i].start] = 1
    /\ ~move(Self, tensor_status, ps_numel, {}, {}, "cuda").raised

\* C24 as stated: the bytes the manager counts as used on a device are the
\* capacity times the element size of the chunk if its recorded device is
\* that device, and none otherwise.
C24_UsedByRecordedDevice ==
    \A d \in Tiers : hps_used[d] = IF chunk_device = d THEN ChunkBytes ELSE 0

\* C25: a step that takes the payload to another device changes the status
\* of no item, and get_status returns after it what it returned before.
C25_MoveKeepsStatus ==
    [][payload_device' # payload_device =>
         /\ tensor_status' = tensor_status
         /\ get_status(tensor_id_to_info_dict', tensor_status')
              = get_status(tensor_id_to_info_dict, tensor_status)]_vars

\* C25 case: a chunk with an item in COMPUTE and an item in HOLD is moved
\* to the other device.
C25_Witness ==
    \E dev \in Tiers :
        LET r == move(Self, tensor_status, ps_numel, TensorIds \ {1}, {1}, dev)
        IN /\ chunk_device = payload_device
           /\ r.device # chunk_device /\ ~r.raised
           /\ \E i, j \in Items :
                  /\ tensor_status[tensor_id_to_info_dict[i].tensor_id] = "COMPUTE"
                  /\ tensor_status[tensor_id_to_info_dict[j].tensor_id] = "HOLD"
           /\ get_status(r.dict, tensor_status) = "COMPUTE"

\* the sizes of the chunks 1..k that are in m with device t, added up
RECURSIVE OnTierBytes(_, _, _)
OnTierBytes(m, t, k) ==
    IF k = 0 THEN 0
    ELSE (IF k \in DOMAIN m /\ m[k].device = t THEN m[k].size ELSE 0)
         + OnTierBytes(m, t, k - 1)

\* C26: get_chunk_memory_used(device) is the sum of the payload sizes of
\* exactly the chunks whose device is that device, so a chunk without a
\* payload counts on no tier, and new_chunk changes the memory used on no
\* tier.
C26_MemoryUsedByTier ==
    \A t \in Tiers :
        /\ get_chunk_memory_used(id_to_chunk_map, t)
             = OnTierBytes(id_to_chunk_map, t, MaxChunks)
        /\ \A c \in ChunkIds, type \in config.types :
              get_chunk_memory_used(
                  new_chunk(id_to_chunk_map, chunk_type_to_id_list_map, c,
                            config.size[c], type, config.world_size).m, t)
                = get_chunk_memory_used(id_to_chunk_map, t)

\* C26 case: a chunk on each tier and a chunk that new_chunk registered and
\* nothing has materialised.
C26_Witness ==
    \E a, b, c \in DOMAIN id_to_chunk_map :
        /\ id_to_chunk_map[a].device = "cpu"
        /\ id_to_chunk_map[b].device = "cuda"
        /\ id_to_chunk_map[c].device = NoDevice
        /\ get_chunk_memory_used(id_to_chunk_map, "cpu") = id_to_chunk_map[a].size
        /\ get_chunk_memory_used(id_to_chunk_map, "cuda") = id_to_chunk_map[b].size

\* C27: the victim selection terminates: a selection in its loop reaches the
\* end of the loop; every iteration takes one chunk off the queue, so the
\* iterations made and the chunks left in the queue add up to the eligible
\* chunks and the iterations never exceed them; and what it hands back is
\* what _chunk_to_move_out_for_room_making computes.
C27_SelectionTerminates ==
    /\ [](selection.pc # "idle" =>
            /\ Cardinality(selection.q) + Len(selection.moved_list)
                 = selection.eligible
            /\ Len(selection.moved_list) <= selection.eligible)
    /\ [](selection.pc = "after" =>
            SelectResult = chunk_to_move_out_for_room_making(
                               id_to_chunk_map, selection.still_need_bytes,
                               selection.target_device, selection.nm))
    /\ (selection.pc = "loop" ~> selection.pc = "after")

\* C27 case: the loop has run once for each of two or more eligible chunks.
C27_Witness ==
    /\ selection.pc = "after"
    /\ selection.eligible >= 2
    /\ Len(selection.moved_list) = selection.eligible

\* tier t holds more chunk bytes than its budget, by the chunks on it or
\* by the manager's count
OverBudget(t) ==
    \/ get_chunk_memory_used(id_to_chunk_map, t) > available_chunk_mem(t)
    \/ mgr_used[t] > available_chunk_mem(t)

\* C28: access_chunk takes no lock: a tier is over its budget only after
\* two threads had both read the free memory in prepare_device before
\* either placed its chunk; as long as no two calls have overlapped, every
\* tier is within its budget.
C28_OverBudgetOnlyByRace ==
    /\ \A t \in Tiers : OverBudget(t) => raced.both_read
    /\ raced.both_read => raced.overlapped
    /\ ~raced.overlapped => \A t \in Tiers : ~OverBudget(t)

\* C28 case: both threads read the free memory before either placed its
\* chunk, both calls have returned, and a tier holds more than its budget.
C28_Witness ==
    /\ raced.both_read
    /\ \A th \in Threads : threads[th].pc = "idle"
    /\ \E t \in Tiers :
          get_chunk_memory_used(id_to_chunk_map, t) > available_chunk_mem(t)

\* C29 as stated: a prepare_device or make_room call that raises has
\* changed the device of no chunk and nothing in the accounting.
C29_RaiseChangesNothing ==
    \A t \in Tiers : \A nm \in MomsFor(t) :
        /\ \A need \in Needs :
              LET r == prepare_device(Now, t, need, nm)
              IN r.raised => (r.m = id_to_chunk_map /\ r.used = mgr_used)
        /\ \A size \in OffloadSizes :
              LET r == make_room(Now, size, t, nm)
              IN r.raised => (r.m = id_to_chunk_map /\ r.used = mgr_used)

\* the call has changed, among the chunks of the Directory, only victims:
\* each changed chunk is in the victim list, was on tier t and is now on the
\* other tier with its size, state and pin as before; and unless the call
\* raised every victim has gone there
OnlyVictimsLeave(r, t) ==
    /\ DOMAIN r.m = DOMAIN id_to_chunk_map
    /\ \A c \in DOMAIN id_to_chunk_map :
          r.m[c] # id_to_chunk_map[c] =>
              /\ c \in SeqRange(r.victims)
              /\ id_to_chunk_map[c].device = t
              /\ r.m[c].device \in Tiers \ {t}
              /\ r.m[c] = [id_to_chunk_map[c] EXCEPT !.device = r.m[c].device]
    /\ ~r.raised =>
          \A c \in SeqRange(r.victims) :
              id_to_chunk_map[c].device = t /\ r.m[c].device # t

\* C30: eviction goes one way and does not cascade: a prepare_device or
\* make_room call for tier t, raising or not, changes the device of selected
\* victims only, which were on t and end on the other tier; no chunk of the
\* other tier, no RELEASED chunk and no chunk outside the victim list
\* changes its device or its state.
C30_OnlyVictimsLeave ==
    \A t \in Tiers : \A nm \in MomsFor(t) :
        /\ \A need \in Needs : OnlyVictimsLeave(prepare_device(Now, t, need, nm), t)
        /\ \A size \in OffloadSizes : OnlyVictimsLeave(make_room(Now, size, t, nm), t)

\* C30 case: a prepare_device that evicts from a tier while the other tier
\* holds a chunk and a third chunk is RELEASED.
C30_Witness ==
    \E t \in Tiers, need \in Needs, a, b \in DOMAIN id_to_chunk_map :
        LET r == prepare_device(Now, t, need, NoMom)
        IN /\ ~r.raised /\ r.victims # <<>>
           /\ id_to_chunk_map[a].device \in Tiers \ {t}
           /\ id_to_chunk_map[b].device = NoDevice

\* C31 as stated: make_room for a size that is not positive selects no victim
\* and moves no chunk, whatever chunks are on the tier.
C31_NoSizeNoVictim ==
    \A t \in Tiers, size \in {-1, 0} : \A nm \in MomsFor(t) :
        LET r == make_room(Now, size, t, nm)
        IN /\ ~r.raised
           /\ r.victims = <<>>
           /\ r.m = id_to_chunk_map /\ r.used = mgr_used

\* C32 as stated: chunk_move of a materialised chunk to the device it is on
\* does not raise and changes neither the chunk nor the accounting, whatever
\* memory is free on that device.
C32_SameDeviceMoveSucceeds ==
    \A c \in Materialised(id_to_chunk_map) :
        LET r == chunk_move(Now, c, id_to_chunk_map[c].device)
        IN /\ ~r.raised
           /\ r.m = id_to_chunk_map /\ r.used = mgr_used

\* C33 as stated: a Chunk.move of a consistent chunk that raises was given
\* mappings that miss an item in use, and leaves the recorded device, the
\* device of the payload and the manager's used bytes describing one
\* placement.
C33_RaiseLeavesOnePlacement ==
    chunk_device = payload_device =>
        \A d, g \in SUBSET TensorIds, dev \in Tiers :
            LET r == move(Self, tensor_status, ps_numel, d, g, dev)
            IN r.raised =>
                 /\ \E i \in Items :
                        Held(i) /\ tensor_id_to_info_dict[i].tensor_id \notin d \cup g
                 /\ r.device = r.payload
                 /\ \A x \in Tiers :
                        r.used[x] = IF r.device = x THEN ChunkBytes ELSE 0

\* C35 as stated: loading, with strict, the state dict just taken from the
\* module raises no error, whatever kinds of parameters the module has.
C35_OwnStateDictLoads ==
    LET sd == state_dict(layout, data, data_fp32)
    IN ~load_state_dict([kind |-> "memory", keys |-> sd.keys, vals |-> sd.vals],
                        layout, data, data_fp32, TRUE).raised

\* C34: an access_chunk call appends the manager's moment once to the
\* chunk's history for compute_device when the manager is in warm-up
\* training, whether the call then places the chunk, finds it resident or
\* raises, and leaves every history as it is otherwise.
C34_WarmupRecordsEveryCall ==
    \A c \in DOMAIN id_to_chunk_map, dev \in Tiers : \A nm \in MomsFor(dev) :
        LET r == access_chunk_in_training(Now, mgr_mom, access_moments, c, dev, nm)
        IN \A c2 \in ChunkIds, d2 \in Tiers :
               r.moments[c2][d2] =
                   IF mgr_mom.warmup /\ c2 = c /\ d2 = dev
                   THEN Append(access_moments[c][dev], mgr_mom.cur_mom)
                   ELSE access_moments[c2][d2]

\* C34 case: in warm-up training, a chunk too large for a device has the
\* moment of its failed access in its history for that device, and a chunk
\* has two moments for the device it is on, the second of an access that
\* found it there.
C34_Witness ==
    /\ mgr_mom.warmup
    /\ \E c \in DOMAIN id_to_chunk_map, dev \in Tiers :
          /\ id_to_chunk_map[c].device = NoDevice
          /\ get_chunk_space(id_to_chunk_map, c) > available_chunk_mem(dev)
          /\ access_moments[c][dev] # <<>>
    /\ \E c \in DOMAIN id_to_chunk_map, dev \in Tiers :
          /\ id_to_chunk_map[c].device = dev
          /\ Len(access_moments[c][dev]) = 2

====
